---- MODULE Spec2Model ----
(***************************************************************************)
(* Tempo DEX front end: the token-tree router (src/src/swap.ts and the     *)
(* path calculation of src/src/data.ts).                                   *)
(*                                                                         *)
(* Tokens are addresses; the parent map is tokenMeta, a lookup table over  *)
(* the addresses it knows.  The specifications are:                        *)
(*   Spec          applies the router's functions, as whole calls, to      *)
(*                 every acyclic parent map and every choice of arguments; *)
(*   SpecWalk      runs the parent-chain loops of getPathToRoot and        *)
(*                 getTokenDepth one iteration at a time, on every parent  *)
(*                 map, cyclic ones included;                              *)
(*   SpecLiquidity aggregates lists of tick rows and runs                  *)
(*                 fetchPairLiquidity on every small order book;           *)
(*   SpecHistory   applies rollupTransfers and fetchSwapHistory to lists   *)
(*                 of transfers;                                           *)
(*   SpecChildren  applies buildChildrenMap to every token list;           *)
(*   SpecQuote     runs fetchQuote one chain read at a time;               *)
(*   SpecPage      runs doFetchQuote of the page, its awaited fetches      *)
(*                 settling in any order;                                  *)
(*   SpecTokens    runs loadTokens of the token manager, one await at a    *)
(*                 time, with concurrent callers;                          *)
(*   SpecApp       runs the page with its swap box: block refreshes,       *)
(*                 input handlers, the debounced quote and the swap;       *)
(*   SpecBox       runs the history box's load effect and its cleanup;     *)
(*   SpecAssets    runs both versions of the assets box's liquidity load.  *)
(***************************************************************************)
EXTENDS Integers, Sequences, FiniteSets, TLC

VARIABLES
    tokenMeta,   \* the parent table: address -> parent address or NoToken
    call,        \* the call being made: [op, fromAddress, toAddress, rootToken]
    retPath,     \* the Address[] returned by getPathToRoot / getSwapPath
    retDepth,    \* the number returned by getTokenDepth
    route,       \* the SwapRoute returned by calculateSwapRoute
    pc,          \* SpecWalk: position in the running function
    current,     \* SpecWalk: the loop variable `current`
    path,        \* SpecWalk: the loop's `path` array
    depth,       \* SpecWalk: the loop's `depth` counter
    pathA,       \* SpecWalk: calculateSwapRoute's `pathA` once computed
    book,        \* the order book of the DEX contract at the block being read
    tickRows,    \* the TickRow[] aggregated / returned
    liquidity,   \* the PairLiquidity summary (or error) returned
    transfers,   \* the directed transfers handed to rollupTransfers
    rollup,      \* what rollupTransfers returned
    indexQuery,  \* fetchSwapHistory's query: its arguments and the index's answer
    swaps,       \* the SwapSummary[] returned by fetchSwapHistory
    tokenList,   \* buildChildrenMap's `tokens`
    symbols,     \* getSymbol: address -> symbol
    childrenMap, \* the Map returned by buildChildrenMap
    fetch,       \* the running fetchQuote call: its arguments and locals
    reads,       \* the quoteSwapExactAmountIn reads issued so far, in order
    quoteResult, \* what fetchQuote returned
    quote,       \* Page: the QuoteState
    lastQuoteParamsRef, \* Page: lastQuoteParamsRef.current
    inflight,    \* Page: the fetchQuote calls awaited by doFetchQuote
    lastStarted, \* Page: the parameters of the most recently started fetch
    state,      \* TokenManager: the singleton state (tokens, loading, error)
    loadPromise, \* TokenManager: the promise of the load in flight, or NoPromise
    loads,      \* TokenManager: the doLoadTokens calls that have not settled
    fetches,    \* TokenManager: the number of tokenlist fetches started
    ret,        \* TokenManager: what the last loadTokens call returned
    page,       \* Page: blockNumber, fromToken, toToken, amount
    quoteTimeoutRef, \* Page: quoteTimeoutRef.current, the last timer created
    timers,     \* Page: the pending setTimeout callbacks with their arguments
    fired,      \* Page: the timers whose callback has run
    refreshes,  \* Page: the fetchBlockNumber calls awaited by refresh
    refreshSeq, \* Page: the number of refresh calls made
    head,       \* the block number at the head of the chain
    swapWrite,  \* SwapBox: isPending and the last swapExactAmountIn submitted
    historyBox, \* HistoryBox: its props (address, blockNumber) and its state
    historyLoads, \* HistoryBox: the load() calls awaiting fetchSwapHistory
    historySettled, \* HistoryBox: the load() calls whose fetch has resolved, in order
    assetsBox,  \* AssetsBox: its prop blockNumber, selectedToken, liquidity and prevTokenRef
    assetLoads, \* AssetsBox: the fetchPairLiquidity calls that have not resolved
    assetsSettled \* AssetsBox: the number of fetchPairLiquidity calls that have resolved

\* the variables of the liquidity aggregation
liqVars == <<book, tickRows, liquidity>>

\* the variables of the swap history
histVars == <<transfers, rollup, indexQuery, swaps>>

\* the variables of the tree building
childVars == <<tokenList, symbols, childrenMap>>

\* the variables of fetchQuote
fetchVars == <<fetch, reads, quoteResult>>

\* the variables of Page
pageVars == <<quote, lastQuoteParamsRef, inflight, lastStarted>>

\* the variables of the token manager
mgrVars == <<state, loadPromise, loads, fetches, ret>>

\* the further variables of Page and SwapBox
appVars == <<page, quoteTimeoutRef, timers, fired, refreshes, refreshSeq, head, swapWrite>>

\* the variables of HistoryBox
boxVars == <<historyBox, historyLoads, historySettled>>

\* the variables of AssetsBox
assetVars == <<assetsBox, assetLoads, assetsSettled>>

\* everything but the router's variables
extVars == <<liqVars, histVars, childVars, fetchVars, pageVars, mgrVars, appVars, boxVars, assetVars>>

\* everything but the router's and one component's variables
exceptLiq == <<histVars, childVars, fetchVars, pageVars, mgrVars, appVars, boxVars, assetVars>>
exceptHist == <<liqVars, childVars, fetchVars, pageVars, mgrVars, appVars, boxVars, assetVars>>
exceptChild == <<liqVars, histVars, fetchVars, pageVars, mgrVars, appVars, boxVars, assetVars>>
exceptFetch == <<liqVars, histVars, childVars, pageVars, mgrVars, appVars, boxVars, assetVars>>
exceptPage == <<liqVars, histVars, childVars, fetchVars, mgrVars, appVars, boxVars, assetVars>>
exceptMgr == <<liqVars, histVars, childVars, fetchVars, pageVars, appVars, boxVars, assetVars>>
exceptApp == <<liqVars, histVars, childVars, fetchVars, pageVars, mgrVars, boxVars, assetVars>>
exceptPageApp == <<liqVars, histVars, childVars, fetchVars, mgrVars, boxVars, assetVars>>
exceptBox == <<liqVars, histVars, childVars, fetchVars, pageVars, mgrVars, appVars, assetVars>>
exceptAssets == <<liqVars, histVars, childVars, fetchVars, pageVars, mgrVars, appVars, boxVars>>

vars == <<tokenMeta, call, retPath, retDepth, route, pc, current, path, depth, pathA,
          extVars>>

-----------------------------------------------------------------------------
(* Bounds and constants *)

\* number of distinct addresses considered
NumTokens == 4

Tokens == 1..NumTokens

\* `null` (no parent)
NoToken == 0

\* the configured root token address
ROOT_TOKEN == 1

\* FEE_PER_HOP = 0.997, as the fraction 997/1000
FEE_PER_HOP == [num |-> 997, den |-> 1000]

\* the walk loops are cut off after this many iterations (the code has no cut-off;
\* on an acyclic map no chain has more than NumTokens tokens)
MaxSteps == NumTokens + 2

-----------------------------------------------------------------------------
(* JavaScript array helpers, 0-based as in the source *)

Min(a, b) == IF a < b THEN a ELSE b
Max(a, b) == IF a > b THEN a ELSE b

\* new Set(arr)
SetOf(s) == {s[i] : i \in 1..Len(s)}

\* arr.indexOf(x): the 0-based index of the first occurrence, or -1
IndexOf(s, x) ==
    IF x \in SetOf(s)
    THEN (CHOOSE i \in 1..Len(s) : s[i] = x /\ \A j \in 1..(i - 1) : s[j] # x) - 1
    ELSE -1

\* arr.slice(start, end): negative indices count from the end
Slice(s, start, end) ==
    LET from == IF start < 0 THEN Max(Len(s) + start, 0) ELSE Min(start, Len(s))
        to   == IF end < 0 THEN Max(Len(s) + end, 0) ELSE Min(end, Len(s))
    IN  [i \in 1..Max(to - from, 0) |-> s[from + i]]

\* mutant: the reversal left out
ReverseOmitted(s) == s

\* arr.reverse()
Reverse(s) == [i \in 1..Len(s) |-> s[Len(s) + 1 - i]]

\* Math.pow(base, exp) for a fraction base with 0 < base < 1 and an integer exp,
\* kept as the formal power base^exp (two such powers are equal iff the exponents are)
Pow(base, exp) == [base |-> base, exp |-> exp]

-----------------------------------------------------------------------------
(* The parent lookup *)

\* getParent = (addr) => mockParent[addr] ?? null ; tokenMeta[current]?.parent ?? null
getParent(addr) == IF addr \in DOMAIN tokenMeta THEN tokenMeta[addr] ELSE NoToken

\* every parent table over the addresses: any subset known, any parent for each
ParentMaps == UNION {[K -> Tokens \cup {NoToken}] : K \in SUBSET Tokens}

\* the k-th ancestor of t under table m (NoToken once the chain has ended)
RECURSIVE ParentIter(_, _, _)
ParentIter(m, t, k) ==
    IF k = 0 \/ t = NoToken THEN t
    ELSE ParentIter(m, IF t \in DOMAIN m THEN m[t] ELSE NoToken, k - 1)

\* the chain from t ends: with NumTokens addresses, NumTokens steps leave any chain
\* that does not run into a cycle
ChainEnds(m, t) == ParentIter(m, t, NumTokens) = NoToken

Acyclic(m) == \A t \in Tokens : ChainEnds(m, t)

-----------------------------------------------------------------------------
(* swap.ts: pure functions *)

RECURSIVE WalkUp(_)
WalkUp(cur) == IF cur = NoToken THEN <<>> ELSE <<cur>> \o WalkUp(getParent(cur))

\* getPathToRoot(address, getParent)
getPathToRoot(address) == WalkUp(address)

RECURSIVE CountUp(_)
CountUp(cur) == IF cur = NoToken THEN 0 ELSE 1 + CountUp(getParent(cur))

\* mutant: the count starts at the token itself instead of at its parent
getTokenDepthFromSelf(address) == CountUp(address)

\* getTokenDepth(address, getParent)
getTokenDepth(address) == CountUp(getParent(address))

\* mutant: the last common token of pathB (the one nearest the root) instead of the first
findLcaLast(pA, pB, rootToken) ==
    LET pathASet == SetOf(pA)
        found == SelectSeq(pB, LAMBDA node : node \in pathASet)
    IN  IF found # <<>> THEN found[Len(found)] ELSE rootToken

\* pathB.find((node) => pathASet.has(node)) ?? rootToken
findLca(pA, pB, rootToken) ==
    LET pathASet == SetOf(pA)
        found == SelectSeq(pB, LAMBDA node : node \in pathASet)
    IN  IF found # <<>> THEN Head(found) ELSE rootToken

\* mutant: only the input side is added to the highlight set
highlightOfInputSide(pA, pB, idxA, idxB) == SetOf(Slice(pA, 0, idxA + 1))

\* the highlight set: pathA.slice(0, idxA + 1) and pathB.slice(0, idxB + 1)
highlightOf(pA, pB, idxA, idxB) ==
    SetOf(Slice(pA, 0, idxA + 1)) \cup SetOf(Slice(pB, 0, idxB + 1))

\* inputPath = pathA.slice(0, idxA)
inputPathOf(pA, idxA) == Slice(pA, 0, idxA)

\* outputPath = [lca, ...pathB.slice(0, idxB).reverse()]
outputPathOf(pB, lca, idxB) == <<lca>> \o Reverse(Slice(pB, 0, idxB))

\* mutant: the output side's edges are not counted
hopsOfInputSide(idxA, idxB) == idxA

\* hops = idxA + idxB
hopsOf(idxA, idxB) == idxA + idxB

\* rate = Math.pow(FEE_PER_HOP, Math.max(hops, 0))
rateOf(hops) == Pow(FEE_PER_HOP, Max(hops, 0))

\* the body of calculateSwapRoute once both root-paths are known
RouteOfPaths(pA, pB, rootToken) ==
    LET lca == findLca(pA, pB, rootToken)
        idxA == IndexOf(pA, lca)
        idxB == IndexOf(pB, lca)
        hops == hopsOf(idxA, idxB)
    IN  [inputPath |-> inputPathOf(pA, idxA),
         outputPath |-> outputPathOf(pB, lca, idxB),
         highlightNodes |-> highlightOf(pA, pB, idxA, idxB),
         hops |-> hops,
         rate |-> rateOf(hops)]

\* calculateSwapRoute(fromAddress, toAddress, rootToken, getParent)
calculateSwapRoute(fromAddress, toAddress, rootToken) ==
    RouteOfPaths(getPathToRoot(fromAddress), getPathToRoot(toAddress), rootToken)

-----------------------------------------------------------------------------
(* data.ts: getSwapPath *)

getSwapPath(fromToken, toToken) ==
    IF fromToken = toToken THEN <<fromToken>>
    ELSE
    LET pA == getPathToRoot(fromToken)
        pB == getPathToRoot(toToken)
        lca == findLca(pA, pB, ROOT_TOKEN)
        idxA == IndexOf(pA, lca)
        idxB == IndexOf(pB, lca)
        upPath == Slice(pA, 0, idxA + 1)
        downPath == Reverse(Slice(pB, 0, idxB))
    IN  upPath \o downPath

-----------------------------------------------------------------------------
(* State *)

NoCall == [op |-> "none", fromAddress |-> NoToken, toAddress |-> NoToken, rootToken |-> NoToken]

NoRoute == [inputPath |-> <<>>, outputPath |-> <<>>, highlightNodes |-> {},
            hops |-> 0, rate |-> Pow(FEE_PER_HOP, 0)]

\* no order book is being read
NoBook == [bestBidTick |-> 0, bestAskTick |-> 0, tickSpacing |-> 1,
           levels |-> <<>>, fails |-> FALSE]

\* no summary has been returned
NoSummary == [status |-> "none"]

LiqIdle ==
    /\ tickRows = <<>>
    /\ liquidity = NoSummary

\* no index query has been made
NoQuery == [address |-> 0, maxSwaps |-> 0, ok |-> TRUE, rows |-> <<>>]

\* rollupTransfers has returned nothing yet
NoRollup == [tokenIn |-> NoToken, tokenOut |-> NoToken, amountIn |-> 0, amountOut |-> 0]

HistIdle ==
    /\ transfers = <<>>
    /\ rollup = NoRollup
    /\ indexQuery = NoQuery
    /\ swaps = <<>>

ChildIdle ==
    /\ tokenList = <<>>
    /\ symbols = <<>>
    /\ childrenMap = <<>>

\* no fetchQuote call is running
NoFetch == [pc |-> "idle", fromToken |-> NoToken, toToken |-> NoToken, amountIn |-> 0,
            blockNumber |-> 0, path |-> <<>>, amounts |-> <<>>, currentAmount |-> 0, i |-> 0]

\* fetchQuote has returned nothing yet
NoResult == [status |-> "none"]

FetchIdle ==
    /\ fetch = NoFetch
    /\ reads = <<>>
    /\ quoteResult = NoResult

\* no quote parameters: the empty key of lastQuoteParamsRef, the `null` of quote.data
NoParams == [fromToken |-> NoToken, toToken |-> NoToken, amountIn |-> 0, block |-> 0]

\* no fetch has been started
NoneStarted == [id |-> 0, key |-> NoParams]

\* useState<QuoteState>({ loading: false, error: null, data: null })
NoQuoteState == [loading |-> FALSE, error |-> "null", data |-> NoParams]

PageIdle ==
    /\ quote = NoQuoteState
    /\ lastQuoteParamsRef = NoParams
    /\ inflight = {}
    /\ lastStarted = NoneStarted

\* loadPromise = null
NoPromise == 0

\* the initial TokenManagerState (its tokenMeta is the variable tokenMeta)
NoState == [tokens |-> <<>>, loading |-> FALSE, error |-> "null"]

\* loadTokens has not been called
NoReturn == [kind |-> "none", promise |-> NoPromise, started |-> FALSE]

MgrIdle ==
    /\ state = NoState
    /\ loadPromise = NoPromise
    /\ loads = {}
    /\ fetches = 0
    /\ ret = NoReturn

\* blockNumber = null
NoBlock == 0

\* quoteTimeoutRef.current = null
NoTimer == 0

\* DEFAULT_FROM and DEFAULT_TO, two different tokens
DEFAULT_FROM == ROOT_TOKEN + 1
DEFAULT_TO == ROOT_TOKEN

\* useState("100"): a positive amount of one base unit in the model
DefaultAmount == [positive |-> TRUE, units |-> 1]

\* the values of Page's useState hooks at the first render
NoPage == [blockNumber |-> NoBlock, fromToken |-> DEFAULT_FROM, toToken |-> DEFAULT_TO,
           amount |-> DefaultAmount]

\* swapWrite with no writeContract call pending
NoWrite == [isPending |-> FALSE, submitted |-> FALSE, fromToken |-> NoToken,
            toToken |-> NoToken, amountIn |-> 0, quote |-> NoParams]

AppIdle ==
    /\ page = NoPage
    /\ quoteTimeoutRef = NoTimer
    /\ timers = {}
    /\ fired = {}
    /\ refreshes = {}
    /\ refreshSeq = 0
    /\ head = 1
    /\ swapWrite = NoWrite

\* HistoryBox: swaps before any fetch has resolved ([])
NoSwaps == [address |-> 0, blockNumber |-> 0]

\* HistoryBox is not rendered
NoHistoryBox == [mounted |-> FALSE, address |-> 0, blockNumber |-> 0,
                 loading |-> FALSE, error |-> "null", swaps |-> NoSwaps]

BoxIdle ==
    /\ historyBox = NoHistoryBox
    /\ historyLoads = {}
    /\ historySettled = <<>>

\* AssetsBox: data = null
NoData == [token |-> NoToken, block |-> 0]

\* AssetsBox: liquidity = null
NoLiquidity == [isNull |-> TRUE, asset |-> NoToken, block |-> 0, loading |-> FALSE,
                error |-> "null", data |-> NoData]

\* AssetsBox is not rendered
NoAssetsBox == [mounted |-> FALSE, version |-> "none", selectedToken |-> NoToken,
                blockNumber |-> 0, prevTokenRef |-> NoToken, liquidity |-> NoLiquidity]

AssetsIdle ==
    /\ assetsBox = NoAssetsBox
    /\ assetLoads = {}
    /\ assetsSettled = 0

Fresh ==
    /\ book = NoBook
    /\ LiqIdle
    /\ HistIdle
    /\ ChildIdle
    /\ FetchIdle
    /\ PageIdle
    /\ AssetsIdle
    /\ BoxIdle
    /\ AppIdle
    /\ MgrIdle
    /\ call = NoCall
    /\ retPath = <<>>
    /\ retDepth = 0
    /\ route = NoRoute
    /\ pc = "idle"
    /\ current = NoToken
    /\ path = <<>>
    /\ depth = 0
    /\ pathA = <<>>

\* Spec starts from any acyclic parent table
Init ==
    /\ tokenMeta \in {m \in ParentMaps : Acyclic(m)}
    /\ Fresh

walkVars == <<pc, current, path, depth, pathA>>

-----------------------------------------------------------------------------
(* Spec: whole calls *)

GetPathToRoot(address) ==
    /\ call = NoCall
    /\ call' = [NoCall EXCEPT !.op = "getPathToRoot", !.fromAddress = address]
    /\ retPath' = getPathToRoot(address)
    /\ UNCHANGED <<tokenMeta, retDepth, route, walkVars, extVars>>

GetTokenDepth(address) ==
    /\ call = NoCall
    /\ call' = [NoCall EXCEPT !.op = "getTokenDepth", !.fromAddress = address]
    /\ retDepth' = getTokenDepth(address)
    /\ UNCHANGED <<tokenMeta, retPath, route, walkVars, extVars>>

CalculateSwapRoute(fromAddress, toAddress, rootToken) ==
    /\ call = NoCall
    /\ call' = [op |-> "calculateSwapRoute", fromAddress |-> fromAddress,
                toAddress |-> toAddress, rootToken |-> rootToken]
    /\ route' = calculateSwapRoute(fromAddress, toAddress, rootToken)
    /\ UNCHANGED <<tokenMeta, retPath, retDepth, walkVars, extVars>>

GetSwapPath(fromToken, toToken) ==
    /\ call = NoCall
    /\ call' = [op |-> "getSwapPath", fromAddress |-> fromToken,
                toAddress |-> toToken, rootToken |-> ROOT_TOKEN]
    /\ retPath' = getSwapPath(fromToken, toToken)
    /\ UNCHANGED <<tokenMeta, retDepth, route, walkVars, extVars>>

Next ==
    \/ \E a \in Tokens : GetPathToRoot(a)
    \/ \E a \in Tokens : GetTokenDepth(a)
    \/ \E a, b, r \in Tokens : CalculateSwapRoute(a, b, r)
    \/ \E a, b \in Tokens : GetSwapPath(a, b)

Spec == Init /\ [][Next]_vars

-----------------------------------------------------------------------------
(* SpecWalk: the loops of getPathToRoot and getTokenDepth, one iteration per step *)

\* SpecWalk starts from any parent table, cyclic ones included
InitWalk ==
    /\ tokenMeta \in ParentMaps
    /\ Fresh

\* getPathToRoot(address, getParent) is entered: path = [], current = address
CallGetPathToRoot(address) ==
    /\ pc = "idle"
    /\ call' = [NoCall EXCEPT !.op = "getPathToRoot", !.fromAddress = address]
    /\ pc' = "walk"
    /\ path' = <<>>
    /\ current' = address
    /\ UNCHANGED <<tokenMeta, retPath, retDepth, route, depth, pathA, extVars>>

\* calculateSwapRoute(fromAddress, toAddress, ROOT_TOKEN, getParent) is entered and
\* calls getPathToRoot(fromAddress, getParent)
CallCalculateSwapRoute(fromAddress, toAddress) ==
    /\ pc = "idle"
    /\ call' = [op |-> "calculateSwapRoute", fromAddress |-> fromAddress,
                toAddress |-> toAddress, rootToken |-> ROOT_TOKEN]
    /\ pc' = "walkA"
    /\ path' = <<>>
    /\ current' = fromAddress
    /\ UNCHANGED <<tokenMeta, retPath, retDepth, route, depth, pathA, extVars>>

\* mutant: the loop looks up the parent of the start address instead of `current`
WalkStepFromStart ==
    /\ pc \in {"walk", "walkA", "walkB"}
    /\ current # NoToken
    /\ Len(path) < MaxSteps
    /\ path' = Append(path, current)
    /\ current' = getParent(IF pc = "walkB" THEN call.toAddress ELSE call.fromAddress)
    /\ UNCHANGED <<tokenMeta, call, retPath, retDepth, route, pc, depth, pathA, extVars>>

\* mutant: a cycle guard, the walk gives up on meeting a token it has already appended
WalkStepGuarded ==
    /\ pc \in {"walk", "walkA", "walkB"}
    /\ current # NoToken
    /\ Len(path) < MaxSteps
    /\ IF current \in SetOf(path)
       THEN /\ pc' = "returned"
            /\ UNCHANGED <<path, current>>
       ELSE /\ path' = Append(path, current)
            /\ current' = getParent(current)
            /\ UNCHANGED pc
    /\ UNCHANGED <<tokenMeta, call, retPath, retDepth, route, depth, pathA, extVars>>

\* one iteration of `while (current) { path.push(current); current = getParent(current) }`
WalkStep ==
    /\ pc \in {"walk", "walkA", "walkB"}
    /\ current # NoToken
    /\ Len(path) < MaxSteps
    /\ path' = Append(path, current)
    /\ current' = getParent(current)
    /\ UNCHANGED <<tokenMeta, call, retPath, retDepth, route, pc, depth, pathA, extVars>>

\* the loop of getPathToRoot ends and `return path` hands the path to the caller
WalkReturn ==
    /\ pc \in {"walk", "walkA", "walkB"}
    /\ current = NoToken
    /\ \/ /\ pc = "walk"
          /\ retPath' = path
          /\ pc' = "returned"
          /\ UNCHANGED <<route, pathA, path, current>>
       \/ /\ pc = "walkA"
          /\ pathA' = path
          /\ path' = <<>>
          /\ current' = call.toAddress
          /\ pc' = "walkB"
          /\ UNCHANGED <<retPath, route>>
       \/ /\ pc = "walkB"
          /\ route' = RouteOfPaths(pathA, path, call.rootToken)
          /\ pc' = "returned"
          /\ UNCHANGED <<retPath, pathA, path, current>>
    /\ UNCHANGED <<tokenMeta, call, retDepth, depth, extVars>>

\* getTokenDepth(address, getParent) is entered: depth = 0, current = getParent(address)
CallGetTokenDepth(address) ==
    /\ pc = "idle"
    /\ call' = [NoCall EXCEPT !.op = "getTokenDepth", !.fromAddress = address]
    /\ pc' = "count"
    /\ depth' = 0
    /\ current' = getParent(address)
    /\ UNCHANGED <<tokenMeta, retPath, retDepth, route, path, pathA, extVars>>

\* one iteration of `while (current) { depth++; current = getParent(current) }`
CountStep ==
    /\ pc = "count"
    /\ current # NoToken
    /\ depth < MaxSteps
    /\ depth' = depth + 1
    /\ current' = getParent(current)
    /\ UNCHANGED <<tokenMeta, call, retPath, retDepth, route, pc, path, pathA, extVars>>

\* the loop of getTokenDepth ends: `return depth`
CountReturn ==
    /\ pc = "count"
    /\ current = NoToken
    /\ retDepth' = depth
    /\ pc' = "returned"
    /\ UNCHANGED <<tokenMeta, call, retPath, route, current, path, depth, pathA, extVars>>

NextWalk ==
    \/ \E a \in Tokens : CallGetPathToRoot(a)
    \/ \E a, b \in Tokens : CallCalculateSwapRoute(a, b)
    \/ \E a \in Tokens : CallGetTokenDepth(a)
    \/ WalkStep
    \/ WalkReturn
    \/ CountStep
    \/ CountReturn

SpecWalk == InitWalk /\ [][NextWalk]_vars

-----------------------------------------------------------------------------
(* Vocabulary of the properties (defined from the parent table alone, not   *)
(* from the router's functions)                                             *)

\* t and its ancestors
AncestorsOrSelf(t) == {ParentIter(tokenMeta, t, k) : k \in 0..NumTokens} \ {NoToken}

\* the tokens that are ancestor-or-self of both a and b
CommonAncestors(a, b) == AncestorsOrSelf(a) \cap AncestorsOrSelf(b)

\* a and b lie in the same tree
SameTree(a, b) == CommonAncestors(a, b) # {}

\* the deepest common ancestor-or-self of a and b (SameTree(a, b) assumed)
Lca(a, b) ==
    CHOOSE x \in CommonAncestors(a, b) :
        \A y \in CommonAncestors(a, b) : getTokenDepth(y) <= getTokenDepth(x)

\* the known tokens with no parent
Roots == {t \in DOMAIN tokenMeta : tokenMeta[t] = NoToken}

\* tokenMeta is one tree: every parent is a known token and there is one root
\* (every state of Spec is acyclic)
IsTree ==
    /\ \A t \in DOMAIN tokenMeta : tokenMeta[t] \in DOMAIN tokenMeta \cup {NoToken}
    /\ Cardinality(Roots) = 1

NoDuplicates(s) == \A i, j \in 1..Len(s) : s[i] = s[j] => i = j

\* x and y are parent and child, in one direction or the other
Adjacent(x, y) == getParent(x) = y \/ getParent(y) = x

\* the route held in `route` was computed for two tokens of a tree
RouteInTree ==
    /\ call.op = "calculateSwapRoute"
    /\ IsTree
    /\ call.fromAddress \in DOMAIN tokenMeta
    /\ call.toAddress \in DOMAIN tokenMeta

\* the whole path of the route held in `route`
RoutePath == route.inputPath \o route.outputPath

\* the root-paths of the two tokens of the call share no token
DisjointRootPaths ==
    SetOf(getPathToRoot(call.fromAddress)) \cap SetOf(getPathToRoot(call.toAddress)) = {}

-----------------------------------------------------------------------------
(* Properties of the whole calls (Spec) *)

\* C1: for two tokens a, b of a single-rooted acyclic tree, inputPath followed by
\* outputPath starts at a, ends at b, repeats no token, has hops + 1 elements, and
\* consecutive tokens are parent and child; inputPath does not contain the lowest
\* common ancestor and outputPath starts with it.
C1_RouteIsTreePath ==
    RouteInTree =>
        LET p == RoutePath
            lca == Lca(call.fromAddress, call.toAddress)
        IN  /\ Len(p) >= 1
            /\ p[1] = call.fromAddress
            /\ p[Len(p)] = call.toAddress
            /\ NoDuplicates(p)
            /\ Len(p) = route.hops + 1
            /\ \A i \in 1..(Len(p) - 1) : Adjacent(p[i], p[i + 1])
            /\ lca \notin SetOf(route.inputPath)
            /\ Head(route.outputPath) = lca

\* a route between two leaves of different branches, through an inner token
C1_Witness ==
    /\ RouteInTree
    /\ Len(route.inputPath) >= 1
    /\ Len(route.outputPath) >= 3

\* C2: for a, b in the same tree, hops = depth(a) + depth(b) - 2 * depth(lca(a, b)),
\* lca(a, b) being the deepest common ancestor-or-self.
C2_HopsFormula ==
    (call.op = "calculateSwapRoute" /\ SameTree(call.fromAddress, call.toAddress)) =>
        route.hops = getTokenDepth(call.fromAddress) + getTokenDepth(call.toAddress)
                     - 2 * getTokenDepth(Lca(call.fromAddress, call.toAddress))

\* both tokens strictly below an lca that is not the root
C2_Witness ==
    /\ call.op = "calculateSwapRoute"
    /\ SameTree(call.fromAddress, call.toAddress)
    /\ getTokenDepth(Lca(call.fromAddress, call.toAddress)) >= 1
    /\ getTokenDepth(call.fromAddress) > getTokenDepth(Lca(call.fromAddress, call.toAddress))
    /\ getTokenDepth(call.toAddress) > getTokenDepth(Lca(call.fromAddress, call.toAddress))
    /\ route.hops = 2

\* C3: on an acyclic forest getPathToRoot(t) starts with t, each next element is the
\* parent of the previous one, the last element has no parent, and the length is
\* getTokenDepth(t) + 1.
C3_PathToRoot ==
    /\ call.op = "getPathToRoot" =>
        /\ Len(retPath) >= 1
        /\ retPath[1] = call.fromAddress
        /\ \A i \in 1..(Len(retPath) - 1) : retPath[i + 1] = getParent(retPath[i])
        /\ getParent(retPath[Len(retPath)]) = NoToken
        /\ Len(retPath) = getTokenDepth(call.fromAddress) + 1
    /\ call.op = "getTokenDepth" =>
        retDepth + 1 = Len(getPathToRoot(call.fromAddress))

\* a path of three tokens
C3_Witness ==
    /\ call.op = "getPathToRoot"
    /\ Len(retPath) = 3
    /\ getTokenDepth(call.fromAddress) = 2

\* C4: for a, b of the tree, route(a, b) and route(b, a) have the same hops and the
\* same highlightNodes.
C4_Symmetry ==
    RouteInTree =>
        LET back == calculateSwapRoute(call.toAddress, call.fromAddress, call.rootToken)
        IN  /\ route.hops = back.hops
            /\ route.highlightNodes = back.highlightNodes

\* a route whose two directions have different input and output paths
C4_Witness ==
    /\ RouteInTree
    /\ Len(route.inputPath) = 2
    /\ Len(route.outputPath) = 2
    /\ Cardinality(route.highlightNodes) = 4

\* C5: a token routed to itself: hops = 0, rate = 1 (FEE_PER_HOP to the power 0), the
\* path is the one-element sequence of that token, and so is getSwapPath(a, a).
C5_SameToken ==
    /\ (call.op = "calculateSwapRoute" /\ call.fromAddress = call.toAddress) =>
        /\ route.hops = 0
        /\ route.rate = Pow(FEE_PER_HOP, 0)
        /\ RoutePath = <<call.fromAddress>>
    /\ (call.op = "getSwapPath" /\ call.fromAddress = call.toAddress) =>
        retPath = <<call.fromAddress>>

\* a token two levels below its root, routed to itself
C5_Witness ==
    /\ call.op = "calculateSwapRoute"
    /\ call.fromAddress = call.toAddress
    /\ getTokenDepth(call.fromAddress) = 2
    /\ route.hops = 0

\* C6: for every pair of tokens, highlightNodes is exactly the set of tokens of
\* inputPath and outputPath.
C6_HighlightIsUnion ==
    call.op = "calculateSwapRoute" =>
        route.highlightNodes = SetOf(route.inputPath) \cup SetOf(route.outputPath)

\* C7: for every pair of tokens, rate = FEE_PER_HOP to the power hops.
C7_RateIsPowerOfHops ==
    call.op = "calculateSwapRoute" =>
        route.rate = Pow(FEE_PER_HOP, route.hops)

\* C8: when the two root-paths share no token, the route through the fallback
\* rootToken is well formed: outputPath starts with rootToken, hops is the
\* non-negative number of edges of the path, highlightNodes is the union of the paths.
C8_FallbackWellFormed ==
    (call.op = "calculateSwapRoute" /\ DisjointRootPaths) =>
        /\ Head(route.outputPath) = call.rootToken
        /\ route.hops >= 0
        /\ route.hops = Len(RoutePath) - 1
        /\ route.highlightNodes = SetOf(route.inputPath) \cup SetOf(route.outputPath)

-----------------------------------------------------------------------------
(* Properties of the loops (SpecWalk) *)

\* the token the running loop started from
WalkStart == IF pc = "walkB" THEN call.toAddress ELSE call.fromAddress

\* the tokens there are for the running call: those the table knows or names as a
\* parent, and the one the walk is asked about
TokensThere ==
    DOMAIN tokenMeta
        \cup ({tokenMeta[t] : t \in DOMAIN tokenMeta} \ {NoToken})
        \cup {WalkStart}

\* the loop at pc can take its next step: iterate while `current` is set, return once
\* it is not
LoopCanStep ==
    \/ pc \in {"walk", "walkA", "walkB"} /\ (ENABLED WalkStep \/ ENABLED WalkReturn)
    \/ pc = "count" /\ (ENABLED CountStep \/ ENABLED CountReturn)

\* C9: on an acyclic parent table the loops of getPathToRoot and getTokenDepth end for
\* every token, known to the table or not: every unfinished loop can take its next
\* step, the path never repeats a token and never has more elements than there are
\* tokens, and the loop stops at the first token whose parent lookup returns none.
C9_WalkTerminates ==
    Acyclic(tokenMeta) =>
        /\ pc \in {"idle", "walk", "walkA", "walkB", "count", "returned"}
        /\ pc \notin {"idle", "returned"} => LoopCanStep
        /\ NoDuplicates(path)
        /\ current \notin SetOf(path)
        /\ Len(path) + (IF current = NoToken THEN 0 ELSE 1) <= Cardinality(TokensThere)
        /\ pc = "count" =>
               depth + (IF current = NoToken THEN 0 ELSE 1) < Cardinality(TokensThere)
        /\ (pc = "returned" /\ call.op = "getPathToRoot") =>
               /\ NoDuplicates(retPath)
               /\ Len(retPath) >= 1
               /\ Len(retPath) <= Cardinality(TokensThere)
               /\ getParent(retPath[Len(retPath)]) = NoToken
               /\ \A i \in 1..(Len(retPath) - 1) : getParent(retPath[i]) # NoToken
        /\ (pc = "returned" /\ call.op = "getTokenDepth") =>
               retDepth < Cardinality(TokensThere)

\* getPathToRoot has returned a path that ends at a token the table does not know
C9_Witness ==
    /\ Acyclic(tokenMeta)
    /\ pc = "returned"
    /\ call.op = "getPathToRoot"
    /\ Len(retPath) >= 3
    /\ retPath[Len(retPath)] \notin DOMAIN tokenMeta

\* the call under way walks a parent chain that runs into a cycle
WalksIntoCycle ==
    /\ call # NoCall
    /\ \/ ~ChainEnds(tokenMeta, call.fromAddress)
       \/ call.op = "calculateSwapRoute" /\ ~ChainEnds(tokenMeta, call.toAddress)

\* C10: there is no cycle guard: a call whose parent chain runs into a cycle never
\* returns and ends in no other way; the loop walking the cyclic chain always finds
\* `current` set, so it keeps appending.
C10_CycleNeverReturns ==
    /\ WalksIntoCycle => pc \in {"walk", "walkA", "walkB", "count"}
    /\ (pc \in {"walk", "walkA", "walkB", "count"} /\ ~ChainEnds(tokenMeta, WalkStart)) =>
           current # NoToken
    /\ (pc \in {"walk", "walkA", "walkB"} /\ ~ChainEnds(tokenMeta, WalkStart)
            /\ Len(path) < MaxSteps) => ENABLED WalkStep

\* the loop has gone round a cycle: more tokens appended than there are addresses
C10_Witness ==
    /\ WalksIntoCycle
    /\ pc = "walk"
    /\ ~NoDuplicates(path)
    /\ Len(path) > NumTokens

-----------------------------------------------------------------------------
(* Liquidity: tick rows and their summary *)

\* at most this many tick rows in one list
MaxRows == 3

\* MIN_TICK and MAX_TICK of the DEX contract: a best tick at the limit means
\* that the side is empty
MinTick == -2
MaxTick == 2

\* PRICE_SCALE of the DEX contract; a price is held as its numerator over
\* PriceScale, so `Number(priceRaw) / scale` is the fraction price / PriceScale
PriceScale == 10

\* the ticks between the limits
Ticks == (MinTick + 1)..(MaxTick - 1)

\* liquidity amounts, in base units
Amounts == 0..2

\* tickToPrice(tick) of the DEX contract, strictly increasing in the tick
tickToPrice(tick) == PriceScale + tick

\* TickRow
Rows == {[tick |-> t, price |-> tickToPrice(t), bidLiquidity |-> b, askLiquidity |-> a] :
            t \in Ticks, b \in Amounts, a \in Amounts}

RowLists == UNION {[1..n -> Rows] : n \in 0..MaxRows}

\* a number as a fraction; prices are in units of 1/PriceScale
Frac(num, den) == [num |-> num, den |-> den]

FracEq(p, q) == p.num * q.den = q.num * p.den

\* +infinity, above every price and every sum of two prices
Infinity == 1000

\* the running best bid starts at price 0, the running best ask at +infinity
NoBid == [found |-> FALSE, tick |-> 0, price |-> 0]
NoAsk == [found |-> FALSE, tick |-> 0, price |-> Infinity]

LevelOf(row) == [found |-> TRUE, tick |-> row.tick, price |-> row.price]

\* mutant: any row with bid liquidity replaces the best bid
betterBidAnyPrice(best, row) == row.bidLiquidity > 0

\* a row is the new best bid: bid liquidity and a strictly higher price
betterBid(best, row) == row.bidLiquidity > 0 /\ row.price > best.price

\* a row is the new best ask: ask liquidity and a strictly lower price
betterAsk(best, row) == row.askLiquidity > 0 /\ row.price < best.price

RECURSIVE bestBidFrom(_, _, _)
bestBidFrom(rows, i, best) ==
    IF i > Len(rows) THEN best
    ELSE bestBidFrom(rows, i + 1, IF betterBid(best, rows[i]) THEN LevelOf(rows[i]) ELSE best)

RECURSIVE bestAskFrom(_, _, _)
bestAskFrom(rows, i, best) ==
    IF i > Len(rows) THEN best
    ELSE bestAskFrom(rows, i + 1, IF betterAsk(best, rows[i]) THEN LevelOf(rows[i]) ELSE best)

\* mutant: a missing side is left as the scan left it
reconcileOmitted(side, other) == side

\* mutant: a missing side always defaults to 0
reconcileToZero(side, other) == IF side.found THEN side ELSE NoBid

\* reconciliation: a missing side is set equal to the existing side, and to 0 when
\* neither side exists
reconcile(side, other) ==
    IF side.found THEN side
    ELSE IF other.found THEN other
    ELSE NoBid

\* (bestBidPrice + bestAskPrice) / 2
midPriceOf(bidPrice, askPrice) == Frac(bidPrice + askPrice, 2)

\* ((bestAskPrice - bestBidPrice) / midPrice) * 10000, or 0 if midPrice <= 0
spreadBpsOf(bidPrice, askPrice) ==
    IF bidPrice + askPrice <= 0 THEN Frac(0, 1)
    ELSE Frac((askPrice - bidPrice) * 2 * 10000, bidPrice + askPrice)

\* the sum over the rows of bid display units times price, plus ask display units;
\* the value is the numerator over 10^TOKEN_DECIMALS * PriceScale
RECURSIVE totalFrom(_, _)
totalFrom(rows, i) ==
    IF i > Len(rows) THEN 0
    ELSE rows[i].bidLiquidity * rows[i].price + rows[i].askLiquidity * PriceScale
         + totalFrom(rows, i + 1)

\* computePairLiquidity(childToken, parentToken, tickRows): aggregate(tickRows)
computePairLiquidity(rows) ==
    LET scanBid == bestBidFrom(rows, 1, NoBid)
        scanAsk == bestAskFrom(rows, 1, NoAsk)
        bid == reconcile(scanBid, scanAsk)
        ask == reconcile(scanAsk, scanBid)
    IN  [status |-> "ok",
         bestBidTick |-> bid.tick,
         bestAskTick |-> ask.tick,
         midPrice |-> midPriceOf(bid.price, ask.price),
         spreadBps |-> spreadBpsOf(bid.price, ask.price),
         totalLiquidityUsd |-> totalFrom(rows, 1)]

\* a caller aggregates a list of tick rows
ComputePairLiquidity(rows) ==
    /\ call = NoCall
    /\ call' = [NoCall EXCEPT !.op = "computePairLiquidity"]
    /\ tickRows' = rows
    /\ liquidity' = computePairLiquidity(rows)
    /\ UNCHANGED <<tokenMeta, retPath, retDepth, route, walkVars, book, exceptLiq>>

-----------------------------------------------------------------------------
(* Liquidity: fetchPairLiquidity of src/src/data.ts *)

\* liquidity amounts of a tick level of the contract
LevelAmounts == {0, 2}

\* what the reads of one block return: the book's best ticks, TICK_SPACING, the
\* level at every tick, and whether one of the reads throws
Books == [bestBidTick : MinTick..MaxTick, bestAskTick : MinTick..MaxTick,
          tickSpacing : {1, 2},
          levels : [MinTick..MaxTick -> [bid : LevelAmounts, ask : LevelAmounts]],
          fails : BOOLEAN]

\* for (let t = highTick; t >= lowTick; t -= spacing) ticks.push(t)
RECURSIVE ticksFrom(_, _, _)
ticksFrom(t, lowTick, spacing) ==
    IF t >= lowTick THEN <<t>> \o ticksFrom(t - spacing, lowTick, spacing) ELSE <<>>

\* the row read for one tick: tickToPrice and both getTickLevel reads
tickResultOf(bk, tick) ==
    [tick |-> tick, price |-> tickToPrice(tick),
     bidLiquidity |-> bk.levels[tick].bid, askLiquidity |-> bk.levels[tick].ask]

noLiquidityAt(rows, idx) ==
    rows[idx + 1].askLiquidity = 0 /\ rows[idx + 1].bidLiquidity = 0

\* while (startIdx < length && no liquidity at startIdx) startIdx++
RECURSIVE startIdxFrom(_, _)
startIdxFrom(rows, startIdx) ==
    IF startIdx < Len(rows) /\ noLiquidityAt(rows, startIdx)
    THEN startIdxFrom(rows, startIdx + 1) ELSE startIdx

\* mutant: the rows without liquidity at the end are kept
endIdxUntrimmed(rows, startIdx, endIdx) == endIdx

\* while (endIdx >= startIdx && no liquidity at endIdx) endIdx--
RECURSIVE endIdxFrom(_, _, _)
endIdxFrom(rows, startIdx, endIdx) ==
    IF endIdx >= startIdx /\ noLiquidityAt(rows, endIdx)
    THEN endIdxFrom(rows, startIdx, endIdx - 1) ELSE endIdx

\* for (const row of tickRows) totalBidUsd += (bidLiquidity / 10^6) * row.price
RECURSIVE totalBidUsd(_, _)
totalBidUsd(rows, i) ==
    IF i > Len(rows) THEN 0 ELSE rows[i].bidLiquidity * rows[i].price + totalBidUsd(rows, i + 1)

\* mutant: asks are converted through the price as bids are
RECURSIVE totalAskUsdThroughPrice(_, _)
totalAskUsdThroughPrice(rows, i) ==
    IF i > Len(rows) THEN 0
    ELSE rows[i].askLiquidity * rows[i].price + totalAskUsdThroughPrice(rows, i + 1)

\* for (const row of tickRows) totalAskUsd += askLiquidity / 10^6
RECURSIVE totalAskUsd(_, _)
totalAskUsd(rows, i) ==
    IF i > Len(rows) THEN 0 ELSE rows[i].askLiquidity * PriceScale + totalAskUsd(rows, i + 1)

\* the summary built from the trimmed rows
pairLiquidityOf(childToken, parent, bk, rows) ==
    LET askPrice == IF Len(rows) > 0 THEN rows[1].price ELSE 0
        bidPrice == IF Len(rows) > 0 THEN rows[Len(rows)].price ELSE 0
        midPrice == IF Len(rows) > 1 THEN Frac(bidPrice + askPrice, 2)
                    ELSE IF Len(rows) > 0 THEN Frac(rows[1].price, 1)
                    ELSE Frac(0, 1)
        spreadBps == IF Len(rows) > 1 /\ midPrice.num > 0
                     THEN Frac((askPrice - bidPrice) * 2 * 10000, bidPrice + askPrice)
                     ELSE Frac(0, 1)
    IN  [status |-> "ok",
         childToken |-> childToken,
         parentToken |-> parent,
         bestBidTick |-> bk.bestBidTick,
         bestAskTick |-> bk.bestAskTick,
         midPrice |-> midPrice,
         spreadBps |-> spreadBps,
         totalLiquidityUsd |-> totalBidUsd(rows, 1) + totalAskUsd(rows, 1)]

ErrorResult(message) == [status |-> "error", error |-> message]

\* const highTick = hasAsk ? bestAskTick : bestBidTick
highTickOf(bk) == IF bk.bestAskTick < MaxTick THEN bk.bestAskTick ELSE bk.bestBidTick

\* mutant: the range always ends at the book's best bid tick
lowTickOfBestBid(bk) == bk.bestBidTick

\* const lowTick = hasBid ? bestBidTick : bestAskTick
lowTickOf(bk) == IF bk.bestBidTick > MinTick THEN bk.bestBidTick ELSE bk.bestAskTick

\* fetchPairLiquidity(childToken, blockNumber) on the book bk: the returned value
\* and the tick rows it carries
fetchPairLiquidity(childToken, bk) ==
    LET parent == getParent(childToken)
        hasBid == bk.bestBidTick > MinTick
        hasAsk == bk.bestAskTick < MaxTick
        highTick == highTickOf(bk)
        lowTick == lowTickOf(bk)
        ticks == ticksFrom(highTick, lowTick, bk.tickSpacing)
        tickResults == [i \in 1..Len(ticks) |-> tickResultOf(bk, ticks[i])]
        startIdx == startIdxFrom(tickResults, 0)
        endIdx == endIdxFrom(tickResults, startIdx, Len(tickResults) - 1)
        rows == Slice(tickResults, startIdx, endIdx + 1)
    IN  IF parent = NoToken THEN [result |-> ErrorResult("token has no parent"), rows |-> <<>>]
        ELSE IF bk.fails THEN [result |-> ErrorResult("read failed"), rows |-> <<>>]
        ELSE IF ~hasBid /\ ~hasAsk THEN [result |-> ErrorResult("no liquidity"), rows |-> <<>>]
        ELSE IF startIdx > endIdx THEN [result |-> ErrorResult("no liquidity"), rows |-> <<>>]
        ELSE [result |-> pairLiquidityOf(childToken, parent, bk, rows), rows |-> rows]

\* the panel fetches the liquidity of a token's pair at a block whose reads return bk;
\* a token without parent is answered before any read
FetchPairLiquidity(childToken, bk) ==
    /\ call = NoCall
    /\ call' = [NoCall EXCEPT !.op = "fetchPairLiquidity", !.fromAddress = childToken]
    /\ book' = IF getParent(childToken) = NoToken THEN book ELSE bk
    /\ liquidity' = fetchPairLiquidity(childToken, bk).result
    /\ tickRows' = fetchPairLiquidity(childToken, bk).rows
    /\ UNCHANGED <<tokenMeta, retPath, retDepth, route, walkVars, exceptLiq>>

\* the token table of the liquidity panel: the root and one child of it
PairTable == [t \in {ROOT_TOKEN, ROOT_TOKEN + 1} |-> IF t = ROOT_TOKEN THEN NoToken ELSE ROOT_TOKEN]

InitLiquidity ==
    /\ tokenMeta = PairTable
    /\ Fresh

NextLiquidity ==
    \/ call = NoCall /\ \E rows \in RowLists : ComputePairLiquidity(rows)
    \/ call = NoCall /\ \E t \in Tokens, bk \in Books : FetchPairLiquidity(t, bk)

SpecLiquidity == InitLiquidity /\ [][NextLiquidity]_vars

-----------------------------------------------------------------------------
(* Liquidity: claims *)

\* the rows of the list with liquidity on one side
BidRows == {i \in 1..Len(tickRows) : tickRows[i].bidLiquidity > 0}
AskRows == {i \in 1..Len(tickRows) : tickRows[i].askLiquidity > 0}

\* row i has the highest price among the rows with bid liquidity
IsBestBid(i) == i \in BidRows /\ \A j \in BidRows : tickRows[j].price <= tickRows[i].price

\* row i has the lowest price among the rows with ask liquidity
IsBestAsk(i) == i \in AskRows /\ \A j \in AskRows : tickRows[j].price >= tickRows[i].price

Aggregated == call.op = "computePairLiquidity"

Fetched == call.op = "fetchPairLiquidity" /\ liquidity.status = "ok"

SingleSidedBook == (book.bestBidTick > MinTick) # (book.bestAskTick < MaxTick)

RowUsd(row) == row.bidLiquidity * row.price + row.askLiquidity * PriceScale

RECURSIVE SumRowUsd(_)
SumRowUsd(S) ==
    IF S = {} THEN 0
    ELSE LET i == CHOOSE i \in S : TRUE IN RowUsd(tickRows[i]) + SumRowUsd(S \ {i})

\* C14: totalLiquidityUsd is the sum over the returned tick rows of the bid liquidity
\* in display units times the row's price plus the ask liquidity in display units.
C14_TotalLiquidityUsd ==
    Fetched \/ Aggregated =>
        liquidity.totalLiquidityUsd = SumRowUsd(1..Len(tickRows))

\* a fetch that returned several rows, with an ask at a price other than 1
C14_Witness ==
    /\ Fetched
    /\ Len(tickRows) > 1
    /\ \E i \in AskRows : tickRows[i].price # PriceScale
    /\ BidRows # {}
    /\ liquidity.totalLiquidityUsd > 0

-----------------------------------------------------------------------------
(* Swap history: rollupTransfers, groupTransfersByTx, fetchSwapHistory *)

\* at most this many directed transfers in one list
MaxTransfers == 3

\* at most this many rows in an answer of the index
MaxIndexRows == 4

\* the tokens that are transferred
HistoryTokens == {ROOT_TOKEN, ROOT_TOKEN + 1, ROOT_TOKEN + 2}

TransferAmounts == 1..2

\* { token, amount, direction }
Directed == [token : HistoryTokens, amount : TransferAmounts, direction : {"in", "out"}]

DirectedLists == UNION {[1..n -> Directed] : n \in 0..MaxTransfers}

\* a Map, with its keys in insertion order
EmptyMap == [keys |-> <<>>, val |-> <<>>]

\* map.get(k) ?? 0n
mapGet(m, k) == IF k \in DOMAIN m.val THEN m.val[k] ELSE 0

\* map.set(k, v)
mapSet(m, k, v) ==
    [keys |-> IF k \in DOMAIN m.val THEN m.keys ELSE Append(m.keys, k),
     val |-> [x \in DOMAIN m.val \cup {k} |-> IF x = k THEN v ELSE m.val[x]]]

\* for (const t of transfers): add `in` amounts, subtract `out` amounts
RECURSIVE netByTokenFrom(_, _, _)
netByTokenFrom(ts, i, m) ==
    IF i > Len(ts) THEN m
    ELSE netByTokenFrom(ts, i + 1,
            IF ts[i].direction = "in"
            THEN mapSet(m, ts[i].token, mapGet(m, ts[i].token) + ts[i].amount)
            ELSE mapSet(m, ts[i].token, mapGet(m, ts[i].token) - ts[i].amount))

\* mutant: every net outflow replaces the one held
largerOutflowAny(net, amountIn) == net < 0

\* net < 0n && -net > amountIn
largerOutflow(net, amountIn) == net < 0 /\ -net > amountIn

\* net > 0n && net > amountOut
largerInflow(net, amountOut) == net > 0 /\ net > amountOut

\* for (const [token, net] of netByToken)
RECURSIVE scanNetFrom(_, _, _)
scanNetFrom(m, i, acc) ==
    IF i > Len(m.keys) THEN acc
    ELSE LET token == m.keys[i]
             net == m.val[token]
             a == IF largerOutflow(net, acc.amountIn)
                  THEN [acc EXCEPT !.tokenIn = token, !.amountIn = -net] ELSE acc
             b == IF largerInflow(net, a.amountOut)
                  THEN [a EXCEPT !.tokenOut = token, !.amountOut = net] ELSE a
         IN  scanNetFrom(m, i + 1, b)

rollupTransfers(ts) == scanNetFrom(netByTokenFrom(ts, 1, EmptyMap), 1, NoRollup)

RollupTransfers(ts) ==
    /\ call = NoCall
    /\ call' = [NoCall EXCEPT !.op = "rollupTransfers"]
    /\ transfers' = ts
    /\ rollup' = rollupTransfers(ts)
    /\ UNCHANGED <<tokenMeta, retPath, retDepth, route, walkVars, indexQuery, swaps, exceptHist>>

\* the user whose history is fetched, and any other account
UserAddress == 1
OtherAddress == 2

\* transaction hashes; the transaction with hash h is in block h
TxHashes == 1..2

\* the rows the index can answer with: transfers from or to the user
IndexRows == {[txHash |-> h, blockNum |-> h, token |-> t, from |-> ft[1], to |-> ft[2], value |-> 1] :
                h \in TxHashes, t \in {ROOT_TOKEN, ROOT_TOKEN + 1},
                ft \in {<<UserAddress, OtherAddress>>, <<OtherAddress, UserAddress>>,
                        <<UserAddress, UserAddress>>}}

IndexRowLists == UNION {[1..n -> IndexRows] : n \in 0..MaxIndexRows}

\* the keys of byTx, in insertion order
RECURSIVE txKeysFrom(_, _, _)
txKeysFrom(rows, i, keys) ==
    IF i > Len(rows) THEN keys
    ELSE txKeysFrom(rows, i + 1,
            IF rows[i].txHash \in SetOf(keys) THEN keys ELSE Append(keys, rows[i].txHash))

\* byTx.get(txHash)
txTransfersOf(rows, txHash) == SelectSeq(rows, LAMBDA r : r.txHash = txHash)

\* txTransfers.map(...).filter(x => x !== null)
RECURSIVE directedFrom(_, _, _)
directedFrom(rows, i, userAddress) ==
    IF i > Len(rows) THEN <<>>
    ELSE (IF rows[i].from = userAddress
          THEN <<[token |-> rows[i].token, amount |-> rows[i].value, direction |-> "out"]>>
          ELSE IF rows[i].to = userAddress
          THEN <<[token |-> rows[i].token, amount |-> rows[i].value, direction |-> "in"]>>
          ELSE <<>>) \o directedFrom(rows, i + 1, userAddress)

\* for (const [txHash, txTransfers] of byTx): a summary is pushed if the roll-up has
\* a token in and a token out
RECURSIVE summariesFrom(_, _, _, _)
summariesFrom(rows, keys, k, userAddress) ==
    IF k > Len(keys) THEN <<>>
    ELSE LET txTransfers == txTransfersOf(rows, keys[k])
             r == rollupTransfers(directedFrom(txTransfers, 1, userAddress))
         IN  (IF r.tokenIn # NoToken /\ r.tokenOut # NoToken /\ r.amountIn > 0 /\ r.amountOut > 0
              THEN <<[txHash |-> keys[k], blockNumber |-> txTransfers[1].blockNum,
                      tokenIn |-> r.tokenIn, tokenOut |-> r.tokenOut,
                      amountIn |-> r.amountIn, amountOut |-> r.amountOut]>>
              ELSE <<>>) \o summariesFrom(rows, keys, k + 1, userAddress)

groupTransfersByTx(rows, userAddress) ==
    summariesFrom(rows, txKeysFrom(rows, 1, <<>>), 1, userAddress)

\* x put into a list sorted by block number descending, behind the summaries of the
\* same block (the sort is stable)
RECURSIVE insertByBlock(_, _)
insertByBlock(sorted, x) ==
    IF sorted = <<>> THEN <<x>>
    ELSE IF sorted[1].blockNumber >= x.blockNumber
         THEN <<sorted[1]>> \o insertByBlock(Tail(sorted), x)
         ELSE <<x>> \o sorted

\* summaries.sort((a, b) => Number(b.blockNumber - a.blockNumber))
RECURSIVE sortByBlock(_, _, _)
sortByBlock(s, i, sorted) ==
    IF i > Len(s) THEN sorted ELSE sortByBlock(s, i + 1, insertByBlock(sorted, s[i]))

\* fetchSwapHistory(address, blockNumber, maxSwaps), the index answering q
fetchSwapHistory(q) ==
    IF ~q.ok THEN <<>>
    ELSE IF q.rows = <<>> THEN <<>>
    ELSE Slice(sortByBlock(groupTransfersByTx(q.rows, q.address), 1, <<>>), 0, q.maxSwaps)

FetchSwapHistory(maxSwaps, ok, rows) ==
    /\ call = NoCall
    /\ call' = [NoCall EXCEPT !.op = "fetchSwapHistory"]
    /\ indexQuery' = [address |-> UserAddress, maxSwaps |-> maxSwaps, ok |-> ok,
                      rows |-> IF ok THEN rows ELSE <<>>]
    /\ swaps' = fetchSwapHistory(indexQuery')
    /\ UNCHANGED <<tokenMeta, retPath, retDepth, route, walkVars, transfers, rollup, exceptHist>>

InitHistory ==
    /\ tokenMeta = PairTable
    /\ Fresh

NextHistory ==
    \/ call = NoCall /\ \E ts \in DirectedLists : RollupTransfers(ts)
    \/ call = NoCall /\ \E maxSwaps \in 1..2, ok \in BOOLEAN, rows \in IndexRowLists :
                            FetchSwapHistory(maxSwaps, ok, rows)

SpecHistory == InitHistory /\ [][NextHistory]_vars

\* the net flow of a token over the directed transfers: what came in less what went out
RECURSIVE SumAmounts(_, _, _, _)
SumAmounts(ts, S, token, direction) ==
    IF S = {} THEN 0
    ELSE LET i == CHOOSE i \in S : TRUE
         IN  (IF ts[i].token = token /\ ts[i].direction = direction THEN ts[i].amount ELSE 0)
             + SumAmounts(ts, S \ {i}, token, direction)

NetFlow(ts, token) ==
    SumAmounts(ts, 1..Len(ts), token, "in") - SumAmounts(ts, 1..Len(ts), token, "out")

NetOutflowTokens(ts) == {t \in HistoryTokens : NetFlow(ts, t) < 0}
NetInflowTokens(ts) == {t \in HistoryTokens : NetFlow(ts, t) > 0}

\* C15: rollupTransfers returns as tokenIn a token of largest net outflow and as
\* tokenOut a token of largest net inflow, with the magnitudes as amountIn and
\* amountOut; tokenIn (tokenOut) is null with amount 0 exactly when no token has a
\* net outflow (inflow); tokenIn and tokenOut are never the same token.
C15_Rollup ==
    call.op = "rollupTransfers" =>
        /\ (rollup.tokenIn = NoToken) <=> (NetOutflowTokens(transfers) = {})
        /\ (rollup.tokenOut = NoToken) <=> (NetInflowTokens(transfers) = {})
        /\ rollup.tokenIn = NoToken => rollup.amountIn = 0
        /\ rollup.tokenOut = NoToken => rollup.amountOut = 0
        /\ rollup.tokenIn # NoToken =>
              /\ rollup.amountIn = -NetFlow(transfers, rollup.tokenIn)
              /\ rollup.amountIn > 0
              /\ \A t \in HistoryTokens : -NetFlow(transfers, t) <= rollup.amountIn
        /\ rollup.tokenOut # NoToken =>
              /\ rollup.amountOut = NetFlow(transfers, rollup.tokenOut)
              /\ rollup.amountOut > 0
              /\ \A t \in HistoryTokens : NetFlow(transfers, t) <= rollup.amountOut
        /\ rollup.tokenIn # NoToken => rollup.tokenIn # rollup.tokenOut

\* two tokens with different net outflows, the larger one first, and a third with a
\* net inflow
C15_Witness ==
    /\ call.op = "rollupTransfers"
    /\ Len(transfers) = 3
    /\ Cardinality(NetOutflowTokens(transfers)) = 2
    /\ rollup.tokenIn = transfers[1].token
    /\ rollup.amountIn = 2
    /\ rollup.tokenOut # NoToken

\* the net flow of a token to the user over the rows of one transaction
RECURSIVE UserNet(_, _, _, _)
UserNet(rows, S, txHash, token) ==
    IF S = {} THEN 0
    ELSE LET i == CHOOSE i \in S : TRUE
             r == rows[i]
             mine == r.txHash = txHash /\ r.token = token
         IN  (IF mine /\ r.to = indexQuery.address THEN r.value ELSE 0)
             - (IF mine /\ r.from = indexQuery.address THEN r.value ELSE 0)
             + UserNet(rows, S \ {i}, txHash, token)

UserNetOf(txHash, token) == UserNet(indexQuery.rows, 1..Len(indexQuery.rows), txHash, token)

\* the user has a net outflow of one token and a net inflow of another
IsSwapOfUser(txHash) ==
    \E a, b \in HistoryTokens : a # b /\ UserNetOf(txHash, a) < 0 /\ UserNetOf(txHash, b) > 0

HistoryBounded == Len(swaps) <= indexQuery.maxSwaps

HistorySorted ==
    \A i, j \in 1..Len(swaps) : i < j => swaps[i].blockNumber >= swaps[j].blockNumber

HistoryDistinct ==
    \A i, j \in 1..Len(swaps) : swaps[i].txHash = swaps[j].txHash => i = j

HistoryOnlySwaps == \A i \in 1..Len(swaps) : IsSwapOfUser(swaps[i].txHash)

HistoryEmptyOnFailure == ~indexQuery.ok => swaps = <<>>

\* C16: fetchSwapHistory returns at most maxSwaps summaries, sorted by block number
\* descending, each transaction hash at most once, only of transactions in which the
\* user has a net outflow of one token and a net inflow of another; a failed index
\* query gives the empty list.
C16_SwapHistory ==
    call.op = "fetchSwapHistory" =>
        /\ HistoryBounded
        /\ HistorySorted
        /\ HistoryDistinct
        /\ HistoryOnlySwaps
        /\ HistoryEmptyOnFailure

-----------------------------------------------------------------------------
(* Tree building: buildChildrenMap of src/src/swap.ts *)

\* at most this many addresses in the token list
MaxList == 3

\* the addresses that are listed
ListTokens == {ROOT_TOKEN, ROOT_TOKEN + 1, ROOT_TOKEN + 2}

\* `tokens`: any list of addresses
TokenLists == UNION {[1..n -> ListTokens] : n \in 0..MaxList}

\* getSymbol; a symbol is held as its rank under localeCompare
SymbolMaps == [ListTokens -> 1..2]

\* children.get(parent) ?? []
childrenGet(m, k) == IF k \in DOMAIN m.val THEN m.val[k] ELSE <<>>

\* tokens.forEach: a token with a parent is pushed onto its parent's list
RECURSIVE collectChildrenFrom(_, _, _)
collectChildrenFrom(tokens, i, children) ==
    IF i > Len(tokens) THEN children
    ELSE LET addr == tokens[i]
             parent == getParent(addr)
         IN  collectChildrenFrom(tokens, i + 1,
                IF parent = NoToken THEN children
                ELSE mapSet(children, parent, Append(childrenGet(children, parent), addr)))

\* x put into a list sorted by symbol, behind the tokens of the same symbol
RECURSIVE insertBySymbol(_, _, _)
insertBySymbol(sorted, x, getSymbol) ==
    IF sorted = <<>> THEN <<x>>
    ELSE IF getSymbol[sorted[1]] <= getSymbol[x]
         THEN <<sorted[1]>> \o insertBySymbol(Tail(sorted), x, getSymbol)
         ELSE <<x>> \o sorted

\* list.sort((a, b) => getSymbol(a).localeCompare(getSymbol(b)))
RECURSIVE sortBySymbol(_, _, _, _)
sortBySymbol(list, i, sorted, getSymbol) ==
    IF i > Len(list) THEN sorted
    ELSE sortBySymbol(list, i + 1, insertBySymbol(sorted, list[i], getSymbol), getSymbol)

buildChildrenMap(tokens, getSymbol) ==
    LET children == collectChildrenFrom(tokens, 1, EmptyMap)
    IN  [keys |-> children.keys,
         val |-> [k \in DOMAIN children.val |-> sortBySymbol(children.val[k], 1, <<>>, getSymbol)]]

BuildChildrenMap(tokens, getSymbol) ==
    /\ call = NoCall
    /\ call' = [NoCall EXCEPT !.op = "buildChildrenMap"]
    /\ tokenList' = tokens
    /\ symbols' = getSymbol
    /\ childrenMap' = buildChildrenMap(tokens, getSymbol)
    /\ UNCHANGED <<tokenMeta, retPath, retDepth, route, walkVars, exceptChild>>

\* any parent table over the listed addresses
InitChildren ==
    /\ tokenMeta \in [ListTokens -> ListTokens \cup {NoToken}]
    /\ Fresh

NextChildren ==
    call = NoCall /\ \E tokens \in TokenLists, getSymbol \in SymbolMaps :
                        BuildChildrenMap(tokens, getSymbol)

SpecChildren == InitChildren /\ [][NextChildren]_vars

\* the listed tokens whose parent is p
ListedChildren(p) == {t \in SetOf(tokenList) : getParent(t) = p}

\* C17: buildChildrenMap maps each parent to exactly the listed tokens whose parent
\* it is, each child once and under its own parent only, each list ordered by symbol;
\* a token without listed children is not a key and a token without parent is in no
\* list.
C17_ChildrenMap ==
    call.op = "buildChildrenMap" =>
        /\ DOMAIN childrenMap.val = {p \in ListTokens : ListedChildren(p) # {}}
        /\ \A p \in DOMAIN childrenMap.val :
              LET list == childrenMap.val[p]
              IN  /\ SetOf(list) = ListedChildren(p)
                  /\ NoDuplicates(list)
                  /\ \A i, j \in 1..Len(list) : i < j => symbols[list[i]] <= symbols[list[j]]
                  /\ \A c \in SetOf(list) : getParent(c) = p /\ getParent(c) # NoToken

\* the claim without the part on repeated children (holds on every list)
ChildrenMapUpToRepeats ==
    call.op = "buildChildrenMap" =>
        /\ DOMAIN childrenMap.val = {p \in ListTokens : ListedChildren(p) # {}}
        /\ \A p \in DOMAIN childrenMap.val :
              LET list == childrenMap.val[p]
              IN  /\ SetOf(list) = ListedChildren(p)
                  /\ NoDuplicates(tokenList) => NoDuplicates(list)
                  /\ \A i, j \in 1..Len(list) : i < j => symbols[list[i]] <= symbols[list[j]]

-----------------------------------------------------------------------------
(* Quote fetching: fetchQuote of src/src/data.ts, one await per step *)

\* the tokens a quote is asked for
QuoteTokens == {ROOT_TOKEN, ROOT_TOKEN + 1, ROOT_TOKEN + 2}

\* the acyclic parent tables over them
QuoteTables == {m \in [QuoteTokens -> QuoteTokens \cup {NoToken}] : Acyclic(m)}

\* amounts asked for and amounts quoted by the DEX
QuoteAmounts == 0..2

\* block numbers
Blocks == 1..2

\* the error messages a failed read carries
ReadErrors == {"InsufficientLiquidity", "execution reverted"}

\* mutant: the read is made at another block than the one asked for
readBlockOfLater(f) == f.blockNumber + 1

\* blockNumber of the readContract call
readBlockOf(f) == f.blockNumber

\* readContract({ functionName: "quoteSwapExactAmountIn",
\*                args: [tokenIn, tokenOut, currentAmount], blockNumber })
hopReadOf(f) ==
    [tokenIn |-> f.path[f.i + 1], tokenOut |-> f.path[f.i + 2], amountIn |-> f.currentAmount,
     blockNumber |-> readBlockOf(f), status |-> "pending", hopAmount |-> 0]

\* Number(formatUnits(amountOut)) / Number(formatUnits(amountIn))
quoteRateOf(amountOut, amountIn) == Frac(amountOut, amountIn)

\* the QuoteResult returned after the loop
quoteOf(f) ==
    [status |-> "ok",
     quote |-> [fromToken |-> f.fromToken, toToken |-> f.toToken, amountIn |-> f.amountIn,
                path |-> f.path, amounts |-> f.amounts,
                amountOut |-> f.amounts[Len(f.amounts)],
                rate |-> quoteRateOf(f.amounts[Len(f.amounts)], f.amountIn),
                block |-> f.blockNumber]]

\* the catch block: the message, or "insufficient liquidity" for InsufficientLiquidity
quoteErrorOf(message) ==
    IF message = "InsufficientLiquidity" THEN ErrorResult("insufficient liquidity")
    ELSE ErrorResult(message)

\* fetchQuote is called: the two early returns, or getSwapPath and the loop's locals
CallFetchQuote(fromToken, toToken, amountIn, blockNumber) ==
    /\ fetch.pc = "idle"
    /\ LET f == [NoFetch EXCEPT !.fromToken = fromToken, !.toToken = toToken,
                                !.amountIn = amountIn, !.blockNumber = blockNumber]
       IN  IF amountIn = 0
           THEN /\ fetch' = [f EXCEPT !.pc = "done"]
                /\ quoteResult' = ErrorResult("amount must be > 0")
           ELSE IF fromToken = toToken
           THEN /\ fetch' = [f EXCEPT !.pc = "done"]
                /\ quoteResult' = ErrorResult("same token (no-op)")
           ELSE /\ fetch' = [f EXCEPT !.pc = "loop", !.path = getSwapPath(fromToken, toToken),
                                      !.amounts = <<amountIn>>, !.currentAmount = amountIn,
                                      !.i = 0]
                /\ UNCHANGED quoteResult
    /\ UNCHANGED <<tokenMeta, call, retPath, retDepth, route, walkVars, reads, exceptFetch>>

\* i < path.length - 1: the read of hop i is issued and awaited
HopRead ==
    /\ fetch.pc = "loop"
    /\ fetch.i < Len(fetch.path) - 1
    /\ reads' = Append(reads, hopReadOf(fetch))
    /\ fetch' = [fetch EXCEPT !.pc = "await"]
    /\ UNCHANGED <<tokenMeta, call, retPath, retDepth, route, walkVars, quoteResult, exceptFetch>>

\* the read resolves: amounts.push(hopAmount); currentAmount = hopAmount; i++
HopReturns(hopAmount) ==
    /\ fetch.pc = "await"
    /\ reads' = [reads EXCEPT ![Len(reads)].status = "ok", ![Len(reads)].hopAmount = hopAmount]
    /\ fetch' = [fetch EXCEPT !.pc = "loop", !.amounts = Append(@, hopAmount),
                              !.currentAmount = hopAmount, !.i = @ + 1]
    /\ UNCHANGED <<tokenMeta, call, retPath, retDepth, route, walkVars, quoteResult, exceptFetch>>

\* mutant: the rejection of the read leaves fetchQuote as an exception
HopFailsUncaught(message) ==
    /\ fetch.pc = "await"
    /\ reads' = [reads EXCEPT ![Len(reads)].status = "failed"]
    /\ fetch' = [fetch EXCEPT !.pc = "thrown"]
    /\ UNCHANGED <<tokenMeta, call, retPath, retDepth, route, walkVars, quoteResult, exceptFetch>>

\* the read rejects: the catch block returns an error
HopFails(message) ==
    /\ fetch.pc = "await"
    /\ reads' = [reads EXCEPT ![Len(reads)].status = "failed"]
    /\ fetch' = [fetch EXCEPT !.pc = "done"]
    /\ quoteResult' = quoteErrorOf(message)
    /\ UNCHANGED <<tokenMeta, call, retPath, retDepth, route, walkVars, exceptFetch>>

\* the loop is over: the quote is returned
QuoteReturns ==
    /\ fetch.pc = "loop"
    /\ ~(fetch.i < Len(fetch.path) - 1)
    /\ fetch' = [fetch EXCEPT !.pc = "done"]
    /\ quoteResult' = quoteOf(fetch)
    /\ UNCHANGED <<tokenMeta, call, retPath, retDepth, route, walkVars, reads, exceptFetch>>

InitQuote ==
    /\ tokenMeta \in QuoteTables
    /\ Fresh

NextQuote ==
    \/ \E a, b \in QuoteTokens, amountIn \in QuoteAmounts, blockNumber \in Blocks :
          CallFetchQuote(a, b, amountIn, blockNumber)
    \/ HopRead
    \/ \E hopAmount \in QuoteAmounts : HopReturns(hopAmount)
    \/ \E message \in ReadErrors : HopFails(message)
    \/ QuoteReturns

SpecQuote == InitQuote /\ [][NextQuote]_vars

\* the reads before the last one have resolved: a read is issued only after the
\* one before it has returned
ReadsSequential == \A k \in 1..(Len(reads) - 1) : reads[k].status = "ok"

\* C19: a successful fetchQuote returns amounts of the length of path, starting with
\* amountIn, each next amount the DEX quote of the previous one over the next hop of
\* the path, and amountOut the last one; the hop reads are issued one after another
\* in path order, each at the blockNumber asked for, which is quote.block.
C19_QuoteAmounts ==
    /\ ReadsSequential
    /\ quoteResult.status = "ok" =>
          LET q == quoteResult.quote
          IN  /\ Len(q.amounts) = Len(q.path)
              /\ q.amounts[1] = fetch.amountIn
              /\ q.amountOut = q.amounts[Len(q.amounts)]
              /\ q.block = fetch.blockNumber
              /\ Len(reads) = Len(q.path) - 1
              /\ \A k \in 1..Len(reads) :
                    reads[k] = [tokenIn |-> q.path[k], tokenOut |-> q.path[k + 1],
                                amountIn |-> q.amounts[k], blockNumber |-> q.block,
                                status |-> "ok", hopAmount |-> q.amounts[k + 1]]

\* the tokens of the call have a common ancestor
QuoteInTree == SameTree(fetch.fromToken, fetch.toToken)

\* the same, for the calls between tokens of one tree
QuoteAmountsInTree == QuoteInTree => C19_QuoteAmounts

\* the failure of the call is settled: no exception, an error value without quote
IsErrorValue(res) == res.status = "error" /\ DOMAIN res = {"status", "error"}

-----------------------------------------------------------------------------
(* Page: doFetchQuote of src/src/app.tsx *)

\* at most this many fetchQuote calls are started
MaxFetches == 2

\* the tokens selected in the form
PageTokens == {ROOT_TOKEN, ROOT_TOKEN + 1}

\* the amount field: whether Number(amountStr) is finite and positive, and what
\* parseUnits(amountStr, TOKEN_DECIMALS) gives (0 for a positive amount below one
\* base unit)
AmountStrs == {[positive |-> FALSE, units |-> 0], [positive |-> TRUE, units |-> 0],
               [positive |-> TRUE, units |-> 1], [positive |-> TRUE, units |-> 2]}

\* `${from}-${to}-${amountIn}-${block}`
paramsKeyOf(from, to, amountIn, block) ==
    [fromToken |-> from, toToken |-> to, amountIn |-> amountIn, block |-> block]

\* what fetchQuote(from, to, amountIn, block) can resolve to: the quote for these
\* parameters or an error
quoteResultsOf(key) ==
    IF key.amountIn = 0 THEN {ErrorResult("amount must be > 0")}
    ELSE {[status |-> "ok", quote |-> key],
          ErrorResult("insufficient liquidity"), ErrorResult("execution reverted")}

\* every fetch that can be started, and every result
PageRequests ==
    {[id |-> id, key |-> paramsKeyOf(from, to, amountStr.units, block)] :
        id \in 1..MaxFetches, from \in PageTokens, to \in PageTokens,
        amountStr \in AmountStrs, block \in Blocks}

PageResults == UNION {quoteResultsOf(req.key) : req \in PageRequests}

\* doFetchQuote(from, to, amountStr, block) up to its await
doFetchQuote(from, to, amountStr, block) ==
    LET paramsKey == paramsKeyOf(from, to, amountStr.units, block)
        id == lastStarted.id + 1
    IN  IF ~amountStr.positive
        THEN /\ quote' = NoQuoteState
             /\ UNCHANGED <<lastQuoteParamsRef, inflight, lastStarted>>
        ELSE IF from = to
        THEN /\ quote' = [loading |-> FALSE, error |-> "same token (no-op)", data |-> NoParams]
             /\ UNCHANGED <<lastQuoteParamsRef, inflight, lastStarted>>
        ELSE IF paramsKey = lastQuoteParamsRef /\ quote.data # NoParams
        THEN UNCHANGED <<quote, lastQuoteParamsRef, inflight, lastStarted>>
        ELSE /\ id <= MaxFetches
             /\ lastQuoteParamsRef' = paramsKey
             /\ quote' = [quote EXCEPT !.loading = TRUE, !.error = "null"]
             /\ inflight' = inflight \cup {[id |-> id, key |-> paramsKey]}
             /\ lastStarted' = [id |-> id, key |-> paramsKey]

\* doFetchQuote is called
DoFetchQuote(from, to, amountStr, block) ==
    /\ doFetchQuote(from, to, amountStr, block)
    /\ UNCHANGED <<tokenMeta, call, retPath, retDepth, route, walkVars, exceptPage>>

\* the rest of doFetchQuote, once the awaited fetchQuote has resolved
quoteSettles(req, result) ==
    /\ req \in inflight
    /\ result \in quoteResultsOf(req.key)
    /\ inflight' = inflight \ {req}
    /\ IF result.status = "error"
       THEN quote' = [loading |-> FALSE, error |-> result.error, data |-> NoParams]
       ELSE quote' = [loading |-> FALSE, error |-> "null", data |-> result.quote]
    /\ UNCHANGED <<lastQuoteParamsRef, lastStarted>>

\* the awaited fetchQuote resolves and the rest of doFetchQuote runs
QuoteSettles(req, result) ==
    /\ quoteSettles(req, result)
    /\ UNCHANGED <<tokenMeta, call, retPath, retDepth, route, walkVars, exceptPage>>

InitPage ==
    /\ tokenMeta = PairTable
    /\ Fresh

NextPage ==
    \/ \E from, to \in PageTokens, amountStr \in AmountStrs, block \in Blocks :
          DoFetchQuote(from, to, amountStr, block)
    \/ \E req \in PageRequests, result \in PageResults : QuoteSettles(req, result)

SpecPage == InitPage /\ [][NextPage]_vars

\* C18: once every fetch started by Page has settled, a quote held in the QuoteState
\* is the result of the most recently started request: a result that arrives after
\* the result of a newer request does not replace it.
C18_StaleQuoteDiscarded ==
    inflight = {} /\ lastStarted # NoneStarted /\ quote.data # NoParams =>
        quote.data = lastStarted.key

-----------------------------------------------------------------------------
(* TokenManager: loadTokens and doLoadTokens of src/unnamed/part_001 *)

\* at most this many loads are started
MaxLoads == 3

\* the addresses of the tokenlist
TokenlistTokens == {ROOT_TOKEN, ROOT_TOKEN + 1}

\* data.tokens of the chain, as normalised addresses: any list, repeats included
TokenlistResponses == UNION {[1..n -> TokenlistTokens] : n \in 0..2}

\* what parent() (or the fallback table) gives for the tokens of a list
ParentResults(tokens) == [SetOf(tokens) -> {NoToken, ROOT_TOKEN}]

\* state.tokens.length > 0 && !state.error
loadedOk == Len(state.tokens) > 0 /\ state.error = "null"

\* doLoadTokens up to its first await: state = {...state, loading: true, error: null}
\* and fetch(TOKENLIST_URL); the promise of the call is numbered by the fetch
startLoad ==
    /\ fetches < MaxLoads
    /\ state' = [state EXCEPT !.loading = TRUE, !.error = "null"]
    /\ fetches' = fetches + 1
    /\ loads' = loads \cup {[promise |-> fetches + 1, pc |-> "fetch", tokens |-> <<>>]}

\* mutant: loadTokens without the check of the load in flight
LoadTokensNoJoin ==
    /\ IF loadedOk
       THEN /\ ret' = [kind |-> "state", promise |-> NoPromise, started |-> FALSE]
            /\ UNCHANGED <<state, loadPromise, loads, fetches>>
       ELSE /\ startLoad
            /\ loadPromise' = fetches + 1
            /\ ret' = [kind |-> "promise", promise |-> fetches + 1, started |-> TRUE]
    /\ UNCHANGED <<tokenMeta, call, retPath, retDepth, route, walkVars, exceptMgr>>

\* loadTokens(): the promise it returns is resolved with loadPromise, with state, or
\* with the promise of the doLoadTokens call it makes
LoadTokens ==
    /\ IF loadPromise # NoPromise
       THEN /\ ret' = [kind |-> "promise", promise |-> loadPromise, started |-> FALSE]
            /\ UNCHANGED <<state, loadPromise, loads, fetches>>
       ELSE IF loadedOk
       THEN /\ ret' = [kind |-> "state", promise |-> NoPromise, started |-> FALSE]
            /\ UNCHANGED <<state, loadPromise, loads, fetches>>
       ELSE /\ startLoad
            /\ loadPromise' = fetches + 1
            /\ ret' = [kind |-> "promise", promise |-> fetches + 1, started |-> TRUE]
    /\ UNCHANGED <<tokenMeta, call, retPath, retDepth, route, walkVars, exceptMgr>>

\* mutant: the catch block without `loadPromise = null`
loadFailedKeepsPromise(load, message) ==
    /\ state' = [state EXCEPT !.loading = FALSE, !.error = message]
    /\ loads' = loads \ {load}
    /\ UNCHANGED <<tokenMeta, loadPromise, fetches, ret>>
    /\ UNCHANGED <<call, retPath, retDepth, route, walkVars, exceptMgr>>

\* the catch block: state = {...state, loading: false, error: message}; loadPromise = null
loadFailed(load, message) ==
    /\ state' = [state EXCEPT !.loading = FALSE, !.error = message]
    /\ loadPromise' = NoPromise
    /\ loads' = loads \ {load}
    /\ UNCHANGED <<tokenMeta, fetches, ret>>
    /\ UNCHANGED <<call, retPath, retDepth, route, walkVars, exceptMgr>>

\* `await fetch(TOKENLIST_URL)` resolves: !res.ok throws, else res.json() is awaited
FetchResolves(load, ok) ==
    /\ load \in loads
    /\ load.pc = "fetch"
    /\ IF ~ok THEN loadFailed(load, "failed to fetch tokenlist: 500")
       ELSE /\ loads' = (loads \ {load}) \cup {[load EXCEPT !.pc = "json"]}
            /\ UNCHANGED <<tokenMeta, state, loadPromise, fetches, ret>>
            /\ UNCHANGED <<call, retPath, retDepth, route, walkVars, exceptMgr>>

\* `await fetch(TOKENLIST_URL)` rejects
FetchRejects(load) ==
    /\ load \in loads
    /\ load.pc = "fetch"
    /\ loadFailed(load, "Failed to fetch")

\* `await res.json()` resolves: tokens = entries.map(getAddress), the parent reads
\* are issued and Promise.all is awaited
JsonResolves(load, tokens) ==
    /\ load \in loads
    /\ load.pc = "json"
    /\ loads' = (loads \ {load}) \cup {[load EXCEPT !.pc = "parents", !.tokens = tokens]}
    /\ UNCHANGED <<tokenMeta, state, loadPromise, fetches, ret>>
    /\ UNCHANGED <<call, retPath, retDepth, route, walkVars, exceptMgr>>

\* `await res.json()` rejects, or getAddress throws on an entry
JsonRejects(load) ==
    /\ load \in loads
    /\ load.pc = "json"
    /\ loadFailed(load, "Unexpected token")

\* Promise.all resolves (a failed parent read is caught inside it):
\* state = { tokens, tokenMeta, loading: false, error: null }; loadPromise = null
ParentsResolve(load, parents) ==
    /\ load \in loads
    /\ load.pc = "parents"
    /\ parents \in ParentResults(load.tokens)
    /\ state' = [tokens |-> load.tokens, loading |-> FALSE, error |-> "null"]
    /\ tokenMeta' = parents
    /\ loadPromise' = NoPromise
    /\ loads' = loads \ {load}
    /\ UNCHANGED <<fetches, ret>>
    /\ UNCHANGED <<call, retPath, retDepth, route, walkVars, exceptMgr>>

\* the loads that can be in flight
LoadRecords ==
    {[promise |-> p, pc |-> c, tokens |-> t] :
        p \in 1..MaxLoads, c \in {"fetch", "json", "parents"}, t \in TokenlistResponses}

\* every parent table a load can store
AllParentResults == UNION {ParentResults(t) : t \in TokenlistResponses}

InitTokens ==
    /\ tokenMeta = <<>>
    /\ Fresh

NextTokens ==
    \/ LoadTokens
    \/ \E load \in LoadRecords, ok \in BOOLEAN : FetchResolves(load, ok)
    \/ \E load \in LoadRecords : FetchRejects(load)
    \/ \E load \in LoadRecords, tokens \in TokenlistResponses : JsonResolves(load, tokens)
    \/ \E load \in LoadRecords : JsonRejects(load)
    \/ \E load \in LoadRecords, parents \in AllParentResults : ParentsResolve(load, parents)

SpecTokens == InitTokens /\ [][NextTokens]_vars

\* C21: at most one load is in flight; a call made while a load is in flight is
\* answered with the promise of that load and starts no tokenlist fetch; and
\* state.loading is true exactly when loadPromise is set.
C21_SingleLoad ==
    /\ Cardinality(loads) <= 1
    /\ \A load \in loads : load.promise = loadPromise
    /\ state.loading <=> loadPromise # NoPromise
    /\ loadPromise # NoPromise <=> loads # {}
    /\ ret.kind = "promise" /\ loadPromise # NoPromise => ret.promise = loadPromise

\* loadTokens was called while a load was in flight, and the load still is
C21_Witness ==
    /\ loadPromise # NoPromise
    /\ ret = [kind |-> "promise", promise |-> loadPromise, started |-> FALSE]
    /\ \E load \in loads : load.pc = "parents"

\* what a loadTokens call does, and what holds over any step of the manager
C22_Step ==
    /\ LoadTokens =>
          /\ (fetches' = fetches + 1 /\ loads' # loads) <=>
                (loadPromise = NoPromise /\ (state.tokens = <<>> \/ state.error # "null"))
          /\ fetches' # fetches => ret'.started /\ loadPromise' = fetches'
    /\ loadedOk =>
          /\ loadPromise = NoPromise
          /\ UNCHANGED <<state, tokenMeta, loadPromise, loads, fetches>>
          /\ LoadTokens => ret'.kind = "state"
    /\ state'.error # "null" => loadPromise' = NoPromise /\ ~loadedOk'

\* C22: loadTokens starts a load (one tokenlist fetch) if and only if no load is in
\* flight and the state has no tokens or carries an error; once a load has succeeded
\* with at least one token the state is never replaced, no fetch is started and a call
\* returns the state; whenever the state carries an error loadPromise is cleared, so
\* that the next call starts a load.
C22_LoadIffNeeded == [][C22_Step]_vars

\* a load has failed, the next call has retried and succeeded with a token, and the
\* call after it was answered from the state
C22_Witness ==
    /\ fetches >= 2
    /\ loadedOk
    /\ ret.kind = "state"

-----------------------------------------------------------------------------
(* Page with SwapBox: src/src/app.tsx and SwapBox of src/unnamed/part_005. *)
(* A state update, the render it causes and the effects of that render are  *)
(* one step.                                                                *)

\* at most this many timers are created
MaxTimers == 3

\* at most this many refresh calls are made
MaxRefreshes == 2

\* the arguments the effect hands to triggerQuote
argsOf(p) == [from |-> p.fromToken, to |-> p.toToken, amountStr |-> p.amount,
              block |-> p.blockNumber]

\* mutant: triggerQuote without clearTimeout
triggerQuoteNoClear(ts, ref, args) ==
    [timers |-> ts \cup {[id |-> ref + 1, args |-> args]}, ref |-> ref + 1]

\* triggerQuote(from, to, amountStr, block) on the pending timers ts and
\* quoteTimeoutRef.current = ref: clearTimeout(ref), then ref = setTimeout(...)
triggerQuote(ts, ref, args) ==
    [timers |-> {t \in ts : t.id # ref} \cup {[id |-> ref + 1, args |-> args]},
     ref |-> ref + 1]

\* the effect on [blockNumber, fromToken, toToken, amount, triggerQuote] after a
\* render: it runs when one of them has changed (triggerQuote changes with
\* quote.data) and calls triggerQuote unless blockNumber is null
quoteEffect(changed, p, ts) ==
    IF changed /\ p.blockNumber # NoBlock
    THEN /\ quoteTimeoutRef < MaxTimers
         /\ timers' = triggerQuote(ts, quoteTimeoutRef, argsOf(p)).timers
         /\ quoteTimeoutRef' = triggerQuote(ts, quoteTimeoutRef, argsOf(p)).ref
    ELSE /\ timers' = ts
         /\ UNCHANGED quoteTimeoutRef

\* quote.data of the next render is another object than that of this one
dataChanged(ok) == ok \/ quote'.data # quote.data

\* refresh() is called (by the mount effect, the 5 s interval or handleSwapSuccess)
\* and awaits fetchBlockNumber()
refresh ==
    /\ refreshSeq < MaxRefreshes
    /\ refreshSeq' = refreshSeq + 1
    /\ refreshes' = refreshes \cup {[id |-> refreshSeq + 1, sent |-> head]}

\* the mount effect and every tick of setInterval(refresh, 5000)
IntervalRefresh ==
    /\ refresh
    /\ UNCHANGED <<page, quoteTimeoutRef, timers, fired, head, swapWrite, pageVars>>
    /\ UNCHANGED <<tokenMeta, call, retPath, retDepth, route, walkVars, exceptPageApp>>

\* the chain grows by a block
NewBlock ==
    /\ head + 1 \in Blocks
    /\ head' = head + 1
    /\ UNCHANGED <<page, quoteTimeoutRef, timers, fired, refreshes, refreshSeq, swapWrite,
                   pageVars>>
    /\ UNCHANGED <<tokenMeta, call, retPath, retDepth, route, walkVars, exceptPageApp>>

\* fetchBlockNumber resolves with a block the chain had between the call and now:
\* setBlockNumber(newBlock)
RefreshResolves(id, newBlock) ==
    \E r \in refreshes :
        /\ r.id = id
        /\ newBlock \in r.sent..head
        /\ refreshes' = refreshes \ {r}
        /\ page' = [page EXCEPT !.blockNumber = newBlock]
        /\ quoteEffect(newBlock # page.blockNumber, page', timers)
        /\ UNCHANGED <<fired, refreshSeq, head, swapWrite, pageVars>>
        /\ UNCHANGED <<tokenMeta, call, retPath, retDepth, route, walkVars, exceptPageApp>>

\* fetchBlockNumber rejects: refresh rejects, no state is set
RefreshRejects(id) ==
    /\ \E r \in refreshes : r.id = id /\ refreshes' = refreshes \ {r}
    /\ UNCHANGED <<page, quoteTimeoutRef, timers, fired, refreshSeq, head, swapWrite, pageVars>>
    /\ UNCHANGED <<tokenMeta, call, retPath, retDepth, route, walkVars, exceptPageApp>>

\* an input of the form changes: the setter, the render and the effect
setInput(p) ==
    /\ p # page
    /\ page' = p
    /\ quoteEffect(TRUE, p, timers)
    /\ UNCHANGED <<fired, refreshes, refreshSeq, head, swapWrite, pageVars>>
    /\ UNCHANGED <<tokenMeta, call, retPath, retDepth, route, walkVars, exceptPageApp>>

\* handleFromToken(addr)
SetFromToken(addr) == setInput([page EXCEPT !.fromToken = addr])

\* handleToToken(addr)
SetToToken(addr) == setInput([page EXCEPT !.toToken = addr])

\* handleAmount(amountStr)
SetAmount(amountStr) == setInput([page EXCEPT !.amount = amountStr])

\* the pending timer id fires: doFetchQuote(from, to, amountStr, block)
TimerFires(id) ==
    \E t \in timers :
        /\ t.id = id
        /\ fired' = fired \cup {t.id}
        /\ doFetchQuote(t.args.from, t.args.to, t.args.amountStr, t.args.block)
        /\ quoteEffect(dataChanged(FALSE), page, timers \ {t})
        /\ UNCHANGED <<page, refreshes, refreshSeq, head, swapWrite>>
        /\ UNCHANGED <<tokenMeta, call, retPath, retDepth, route, walkVars, exceptPageApp>>

\* what an awaited fetchQuote resolves to: "ok" for a quote, or the error message
QuoteOutcomes == {"ok", "amount must be > 0", "insufficient liquidity", "execution reverted"}

\* the QuoteResult of an outcome for the request req
resultOf(req, outcome) ==
    IF outcome = "ok" THEN [status |-> "ok", quote |-> req.key] ELSE ErrorResult(outcome)

\* an awaited fetchQuote resolves inside doFetchQuote
PageQuoteSettles(id, outcome) ==
    \E req \in inflight :
        /\ req.id = id
        /\ quoteSettles(req, resultOf(req, outcome))
        /\ quoteEffect(dataChanged(outcome = "ok"), page, timers)
        /\ UNCHANGED <<page, fired, refreshes, refreshSeq, head, swapWrite>>
        /\ UNCHANGED <<tokenMeta, call, retPath, retDepth, route, walkVars, exceptPageApp>>

\* SwapBox: amountIn of the amount typed
amountInOf(amountStr) == IF amountStr.positive THEN amountStr.units ELSE 0

\* SwapBox: hasValidQuote
hasValidQuote == quote.data # NoParams /\ quote.error = "null"

\* SwapBox: canSwap, for a wallet with balance and allowance and a quote whose
\* amountOut is positive
canSwap ==
    /\ page.fromToken # page.toToken
    /\ ~swapWrite.isPending
    /\ hasValidQuote

\* SwapBox: the SWAP button is clicked: handleSwap
HandleSwap ==
    /\ canSwap
    /\ IF amountInOf(page.amount) = 0 THEN UNCHANGED swapWrite
       ELSE swapWrite' = [isPending |-> TRUE, submitted |-> TRUE,
                          fromToken |-> page.fromToken, toToken |-> page.toToken,
                          amountIn |-> amountInOf(page.amount), quote |-> quote.data]
    /\ UNCHANGED <<page, quoteTimeoutRef, timers, fired, refreshes, refreshSeq, head, pageVars>>
    /\ UNCHANGED <<tokenMeta, call, retPath, retDepth, route, walkVars, exceptPageApp>>

\* writeContract succeeds: onSwapSuccess() calls refresh()
SwapSucceeds ==
    /\ swapWrite.isPending
    /\ swapWrite' = NoWrite
    /\ refresh
    /\ UNCHANGED <<page, quoteTimeoutRef, timers, fired, head, pageVars>>
    /\ UNCHANGED <<tokenMeta, call, retPath, retDepth, route, walkVars, exceptPageApp>>

\* writeContract fails
SwapFails ==
    /\ swapWrite.isPending
    /\ swapWrite' = NoWrite
    /\ UNCHANGED <<page, quoteTimeoutRef, timers, fired, refreshes, refreshSeq, head, pageVars>>
    /\ UNCHANGED <<tokenMeta, call, retPath, retDepth, route, walkVars, exceptPageApp>>

InitApp ==
    /\ tokenMeta = PairTable
    /\ Fresh

NextApp ==
    \/ IntervalRefresh
    \/ NewBlock
    \/ \E id \in 1..MaxRefreshes, newBlock \in Blocks : RefreshResolves(id, newBlock)
    \/ \E id \in 1..MaxRefreshes : RefreshRejects(id)
    \/ \E addr \in PageTokens : SetFromToken(addr)
    \/ \E addr \in PageTokens : SetToToken(addr)
    \/ \E amountStr \in AmountStrs : SetAmount(amountStr)
    \/ \E id \in 1..MaxTimers : TimerFires(id)
    \/ \E id \in 1..MaxFetches, outcome \in QuoteOutcomes : PageQuoteSettles(id, outcome)
    \/ HandleSwap
    \/ SwapSucceeds
    \/ SwapFails

SpecApp == InitApp /\ [][NextApp]_vars

\* what holds of the timers over any step of Page
C23_Step ==
    /\ Cardinality(timers') <= 1
    /\ \A t \in timers' : t.id = quoteTimeoutRef' /\ t.args = argsOf(page')
    /\ quoteTimeoutRef' # quoteTimeoutRef =>
          /\ quoteTimeoutRef' = quoteTimeoutRef + 1
          /\ \A t \in timers : t.id = quoteTimeoutRef => t \notin timers'
    /\ fired' # fired =>
          \E t \in timers :
             /\ t.id \notin fired
             /\ fired' = fired \cup {t.id}
             /\ t.id = quoteTimeoutRef
             /\ t.args = argsOf(page)
             /\ t \notin timers'

\* C23: at most one timer is pending, and it is the one created by the last
\* triggerQuote call, with that call's arguments; a triggerQuote call removes the
\* timer of the call before it; a timer that fires is the one of the last call
\* made so far and fires once, so of the calls made while a timer was pending only
\* the last one's arguments reach doFetchQuote.
C23_Debounce == [][C23_Step]_vars

\* triggerQuote was called twice before a timer fired, and only the second
\* call's timer has fired
C23_Witness ==
    /\ quoteTimeoutRef = 2
    /\ fired = {2}
    /\ timers = {}

\* C27: the quote from which amountOut and minAmountOut of a submitted
\* swapExactAmountIn are derived was fetched for the fromToken, toToken and amountIn
\* of the submitted call.
C27_SwapMatchesQuote ==
    swapWrite.submitted =>
        /\ swapWrite.quote.fromToken = swapWrite.fromToken
        /\ swapWrite.quote.toToken = swapWrite.toToken
        /\ swapWrite.quote.amountIn = swapWrite.amountIn

\* C28: the blockNumber held by Page never decreases.
C28_BlockNumberMonotonic == [][page'.blockNumber >= page.blockNumber]_vars

-----------------------------------------------------------------------------
(* HistoryBox of src/unnamed/part_008: the effect on [address, blockNumber] *)

\* at most this many load() calls are made
MaxHistoryLoads == 3

\* the wallet addresses HistoryBox is rendered for
BoxAddresses == {UserAddress, OtherAddress}

\* the effect runs for the props of box: load() sets loading and awaits
\* fetchSwapHistory(address, blockNumber, 20) with its own `cancelled` flag
startHistoryLoad(box, ls) ==
    /\ Len(historySettled) + Cardinality(ls) < MaxHistoryLoads
    /\ historyBox' = [box EXCEPT !.loading = TRUE]
    /\ historyLoads' = ls \cup {[id |-> Len(historySettled) + Cardinality(ls) + 1,
                                 address |-> box.address, blockNumber |-> box.blockNumber,
                                 cancelled |-> FALSE]}

\* the cleanup of the effects that have run: cancelled = true
cleanedUp(ls) == {[l EXCEPT !.cancelled = TRUE] : l \in ls}

\* Page renders HistoryBox for the first time: useState's initial state, then the
\* effect
MountHistoryBox(address, block) ==
    /\ ~historyBox.mounted
    /\ startHistoryLoad([mounted |-> TRUE, address |-> address, blockNumber |-> block,
                         loading |-> TRUE, error |-> "null", swaps |-> NoSwaps],
                        historyLoads)
    /\ UNCHANGED <<historySettled, tokenMeta, call, retPath, retDepth, route, walkVars, exceptBox>>

\* address or blockNumber changes: the cleanup of the previous effect, then the effect
HistoryPropsChange(address, block) ==
    /\ historyBox.mounted
    /\ <<address, block>> # <<historyBox.address, historyBox.blockNumber>>
    /\ startHistoryLoad([historyBox EXCEPT !.address = address, !.blockNumber = block],
                        cleanedUp(historyLoads))
    /\ UNCHANGED <<historySettled, tokenMeta, call, retPath, retDepth, route, walkVars, exceptBox>>

\* HistoryBox is unmounted: the cleanup runs, the state is gone
UnmountHistoryBox ==
    /\ historyBox.mounted
    /\ historyBox' = NoHistoryBox
    /\ historyLoads' = cleanedUp(historyLoads)
    /\ UNCHANGED <<historySettled, tokenMeta, call, retPath, retDepth, route, walkVars, exceptBox>>

\* mutant: the result is stored without the test of `cancelled`
HistoryResolvesUnguarded(l) ==
    /\ l \in historyLoads
    /\ historyLoads' = historyLoads \ {l}
    /\ historySettled' = Append(historySettled, l.id)
    /\ historyBox' = [historyBox EXCEPT !.loading = FALSE, !.error = "null",
                         !.swaps = [address |-> l.address, blockNumber |-> l.blockNumber]]
    /\ UNCHANGED <<tokenMeta, call, retPath, retDepth, route, walkVars, exceptBox>>

\* fetchSwapHistory resolves (it catches its errors and resolves with []):
\* if (!cancelled) setState({ loading: false, error: null, swaps })
HistoryResolves(l) ==
    /\ l \in historyLoads
    /\ historyLoads' = historyLoads \ {l}
    /\ historySettled' = Append(historySettled, l.id)
    /\ IF l.cancelled THEN UNCHANGED historyBox
       ELSE historyBox' = [historyBox EXCEPT !.loading = FALSE, !.error = "null",
                              !.swaps = [address |-> l.address, blockNumber |-> l.blockNumber]]
    /\ UNCHANGED <<tokenMeta, call, retPath, retDepth, route, walkVars, exceptBox>>

\* the load() calls that can be in flight
HistoryLoadRecords ==
    {[id |-> i, address |-> a, blockNumber |-> b, cancelled |-> c] :
        i \in 1..MaxHistoryLoads, a \in BoxAddresses, b \in Blocks, c \in BOOLEAN}

InitBox ==
    /\ tokenMeta = PairTable
    /\ Fresh

NextBox ==
    \/ \E address \in BoxAddresses, block \in Blocks : MountHistoryBox(address, block)
    \/ \E address \in BoxAddresses, block \in Blocks : HistoryPropsChange(address, block)
    \/ UnmountHistoryBox
    \/ \E l \in HistoryLoadRecords : HistoryResolves(l)

SpecBox == InitBox /\ [][NextBox]_vars

\* what holds over any step of HistoryBox
C24_Step ==
    /\ \A l \in historyLoads :
          l.cancelled /\ l \notin historyLoads' => historyBox' = historyBox
    /\ historyBox'.mounted /\ historyLoads' = {} =>
          /\ ~historyBox'.loading
          /\ historyBox'.swaps = [address |-> historyBox'.address,
                                  blockNumber |-> historyBox'.blockNumber]

\* C24: the result of a fetch whose effect has been cleaned up leaves the state of
\* HistoryBox as it is, and once every fetch has settled the swaps held by a mounted
\* HistoryBox are those fetched for its current address and blockNumber.
C24_CancelledIgnored == [][C24_Step]_vars

\* the props have changed while the first fetch was in flight, and the first fetch
\* has settled after the second
C24_Witness ==
    /\ historyBox.mounted
    /\ historySettled = <<2, 1>>
    /\ historyLoads = {}

-----------------------------------------------------------------------------
(* AssetsBox of src/unnamed/part_008, which holds two components of this name:   *)
(* "effect" (lines 318-373) fetches in the effect, with a `cancelled` flag, and   *)
(* "loadLiquidity" (lines 556-596) fetches in loadLiquidity, called by the effect *)

\* at most this many fetchPairLiquidity calls are made
MaxAssetLoads == 3

\* getNonRootTokens(): the tokens that can be selected
NonRootTokens == {ROOT_TOKEN + 1, ROOT_TOKEN + 2}

\* fetchPairLiquidity(token, block) is called, with the `cancelled` of its effect
startAssetLoad(ls, token, block) ==
    /\ assetsSettled + Cardinality(ls) < MaxAssetLoads
    /\ assetLoads' = ls \cup {[id |-> assetsSettled + Cardinality(ls) + 1, token |-> token,
                               block |-> block, cancelled |-> FALSE]}

\* "effect": the state set by the effect before the fetch
\* (isTokenChange = liquidity?.asset !== selectedToken)
effectLoading(box) ==
    IF box.liquidity.isNull \/ box.liquidity.asset # box.selectedToken
    THEN [isNull |-> FALSE, asset |-> box.selectedToken, block |-> box.blockNumber,
          loading |-> TRUE, error |-> "null", data |-> NoData]
    ELSE [box.liquidity EXCEPT !.block = box.blockNumber, !.loading = TRUE]

\* "loadLiquidity": the state set by loadLiquidity(token, block, isTokenChange)
\* before the fetch
loadLiquidityLoading(box, isTokenChange) ==
    IF isTokenChange
    THEN [box.liquidity EXCEPT !.loading = TRUE, !.error = "null", !.data = NoData]
    ELSE [box.liquidity EXCEPT !.loading = TRUE]

\* the effect on [selectedToken, blockNumber] runs for box after the cleanup of the
\* effect before it (which sets `cancelled` in "effect" and does not exist in
\* "loadLiquidity")
assetsEffect(box) ==
    IF box.version = "effect"
    THEN /\ assetsBox' = [box EXCEPT !.liquidity = effectLoading(box)]
         /\ startAssetLoad({[l EXCEPT !.cancelled = TRUE] : l \in assetLoads},
                           box.selectedToken, box.blockNumber)
    ELSE /\ assetsBox' = [box EXCEPT
                             !.prevTokenRef = box.selectedToken,
                             !.liquidity = loadLiquidityLoading(box,
                                               box.prevTokenRef # box.selectedToken)]
         /\ startAssetLoad(assetLoads, box.selectedToken, box.blockNumber)

\* useState's initial values in the two components
initialLiquidity(version) ==
    IF version = "effect" THEN NoLiquidity ELSE [NoLiquidity EXCEPT !.isNull = FALSE]

\* Page renders AssetsBox (the assets tab is opened): first render and effect
MountAssetsBox(version, token, block) ==
    /\ ~assetsBox.mounted
    /\ assetsEffect([mounted |-> TRUE, version |-> version, selectedToken |-> token,
                     blockNumber |-> block, prevTokenRef |-> token,
                     liquidity |-> initialLiquidity(version)])
    /\ UNCHANGED <<assetsSettled, tokenMeta, call, retPath, retDepth, route, walkVars,
                   exceptAssets>>

\* handleSelectToken(addr)
HandleSelectToken(addr) ==
    /\ assetsBox.mounted
    /\ addr # ROOT_TOKEN
    /\ addr # assetsBox.selectedToken
    /\ assetsEffect([assetsBox EXCEPT !.selectedToken = addr])
    /\ UNCHANGED <<assetsSettled, tokenMeta, call, retPath, retDepth, route, walkVars,
                   exceptAssets>>

\* Page hands another blockNumber to AssetsBox
AssetsBlockChanges(block) ==
    /\ assetsBox.mounted
    /\ block # assetsBox.blockNumber
    /\ assetsEffect([assetsBox EXCEPT !.blockNumber = block])
    /\ UNCHANGED <<assetsSettled, tokenMeta, call, retPath, retDepth, route, walkVars,
                   exceptAssets>>

\* the assets tab is closed: the cleanup runs in "effect", the state is gone
UnmountAssetsBox ==
    /\ assetsBox.mounted
    /\ assetsBox' = NoAssetsBox
    /\ assetLoads' = IF assetsBox.version = "effect"
                     THEN {[l EXCEPT !.cancelled = TRUE] : l \in assetLoads}
                     ELSE assetLoads
    /\ UNCHANGED <<assetsSettled, tokenMeta, call, retPath, retDepth, route, walkVars,
                   exceptAssets>>

\* the state set when the fetch for (token, block) has resolved
resolvedLiquidity(box, l, ok) ==
    [isNull |-> FALSE,
     asset |-> IF box.version = "effect" THEN l.token ELSE NoToken,
     block |-> IF box.version = "effect" THEN l.block ELSE 0,
     loading |-> FALSE,
     error |-> IF ok THEN "null" ELSE "no liquidity",
     data |-> IF ok THEN [token |-> l.token, block |-> l.block] ELSE NoData]

\* fetchPairLiquidity resolves with a summary or an error value: "effect" returns
\* if `cancelled`, "loadLiquidity" sets the state
AssetsResolves(l, ok) ==
    /\ l \in assetLoads
    /\ assetLoads' = assetLoads \ {l}
    /\ assetsSettled' = assetsSettled + 1
    /\ IF l.cancelled \/ ~assetsBox.mounted THEN UNCHANGED assetsBox
       ELSE assetsBox' = [assetsBox EXCEPT !.liquidity = resolvedLiquidity(assetsBox, l, ok)]
    /\ UNCHANGED <<tokenMeta, call, retPath, retDepth, route, walkVars, exceptAssets>>

\* the fetchPairLiquidity calls that can be in flight
AssetLoadRecords ==
    {[id |-> i, token |-> t, block |-> b, cancelled |-> c] :
        i \in 1..MaxAssetLoads, t \in NonRootTokens, b \in Blocks, c \in BOOLEAN}

InitAssets ==
    /\ tokenMeta = PairTable
    /\ Fresh

NextAssets ==
    \/ \E version \in {"effect", "loadLiquidity"}, token \in NonRootTokens, block \in Blocks :
          MountAssetsBox(version, token, block)
    \/ \E addr \in NonRootTokens : HandleSelectToken(addr)
    \/ \E block \in Blocks : AssetsBlockChanges(block)
    \/ UnmountAssetsBox
    \/ \E l \in AssetLoadRecords, ok \in BOOLEAN : AssetsResolves(l, ok)

SpecAssets == InitAssets /\ [][NextAssets]_vars

\* what holds over any step of AssetsBox
C25_Step ==
    /\ assetsBox.mounted /\ assetsBox'.mounted =>
          /\ assetsBox'.blockNumber # assetsBox.blockNumber =>
                /\ assetsBox'.liquidity.data = assetsBox.liquidity.data
                /\ assetsBox'.liquidity.loading
          /\ assetsBox'.selectedToken # assetsBox.selectedToken =>
                /\ assetsBox'.liquidity.data = NoData
                /\ assetsBox'.liquidity.loading
    /\ assetsBox'.mounted /\ assetsBox'.liquidity.data # NoData =>
          assetsBox'.liquidity.data.token = assetsBox'.selectedToken

\* C25: when blockNumber changes under the same selected token the loaded data stays
\* in the state while loading is true; when the selected token changes the data is
\* reset to null before the fetch; and the data held are never those of another
\* token than the selected one.
C25_StaleOnlyAcrossBlocks == [][C25_Step]_vars

\* the same, for the component that fetches in its effect
C25_InEffectVersion == [][assetsBox'.version = "effect" => C25_Step]_vars

-----------------------------------------------------------------------------
(* Liquidity: the tick rows of fetchPairLiquidity *)

\* the ticks fetchPairLiquidity reads for the book read
RangeTicks == ticksFrom(highTickOf(book), lowTickOf(book), book.tickSpacing)

\* a tick of the range has bid or ask liquidity
RangeHasLiquidity ==
    \E i \in 1..Len(RangeTicks) :
        book.levels[RangeTicks[i]].bid > 0 \/ book.levels[RangeTicks[i]].ask > 0

\* the book read has neither a bid nor an ask
BookEmpty == ~(book.bestBidTick > MinTick) /\ ~(book.bestAskTick < MaxTick)

HasLiquidity(row) == row.bidLiquidity > 0 \/ row.askLiquidity > 0

\* C26: a successful fetchPairLiquidity returns tick rows in strictly descending tick
\* order, consecutive rows one tick spacing apart, the first and the last row with
\* bid or ask liquidity; a book with neither bid nor ask, or with no liquidity at
\* any tick of the range, gives the error 'no liquidity'; a token without parent
\* gives the error 'token has no parent' and nothing is read.
C26_TickRows ==
    call.op = "fetchPairLiquidity" =>
        IF getParent(call.fromAddress) = NoToken
        THEN liquidity = ErrorResult("token has no parent") /\ book = NoBook
        ELSE /\ liquidity.status = "ok" =>
                   /\ Len(tickRows) > 0
                   /\ \A i \in 1..(Len(tickRows) - 1) :
                         tickRows[i].tick - tickRows[i + 1].tick = book.tickSpacing
                   /\ \A i, j \in 1..Len(tickRows) :
                         i < j => tickRows[i].tick > tickRows[j].tick
                   /\ HasLiquidity(tickRows[1])
                   /\ HasLiquidity(tickRows[Len(tickRows)])
             /\ ~book.fails /\ (BookEmpty \/ ~RangeHasLiquidity) =>
                   liquidity = ErrorResult("no liquidity")

\* rows without liquidity were cut off and at least two rows are returned
C26_Witness ==
    /\ Fetched
    /\ Len(tickRows) >= 2
    /\ Len(tickRows) < Len(RangeTicks)
    /\ ~HasLiquidity(tickResultOf(book, RangeTicks[Len(RangeTicks)]))

====
